---- MODULE Spec2Model ----
(***************************************************************************)
(* pagesnap: the capture pipeline of cloneActiveTab (the cloner library),   *)
(* the FETCH_CSS background handler and the popup's runClone.               *)
(*                                                                         *)
(* Strings are sequences of tokens.  A token is one character that the     *)
(* code treats specially (a comma, a quote, a bracket, a backslash, a      *)
(* colon, one blank) or a run of ordinary characters ("hover", "a").       *)
(***************************************************************************)
EXTENDS Integers, Sequences, FiniteSets, TLC

\* Number of style sheets the page brings (the freeze sheet comes on top).
NSheets == 2

\* Number of elements of the page's head and body besides the style sources.
MaxElems == 2

\* Longest selector text, in tokens, handed to splitSelectors
MaxSplitLen == 5

\* Longest selector, in tokens, handed to normalizeSelector and selectorMatches
MaxSelLen == 4

\* Most url references and other pieces in a text handed to rewriteCssUrls
MaxPieces == 2

-----------------------------------------------------------------------------
(* Sequences *)

Last(s) == s[Len(s)]

DropLast(s) == SubSeq(s, 1, Len(s) - 1)

RECURSIVE Flatten(_)
Flatten(ss) == IF ss = <<>> THEN <<>> ELSE Head(ss) \o Flatten(Tail(ss))

\* Array.prototype.join: the items with the separator between neighbours.
RECURSIVE Join(_, _)
Join(ss, sep) ==
  IF ss = <<>> THEN <<>>
  ELSE IF Len(ss) = 1 THEN Head(ss)
  ELSE Head(ss) \o sep \o Join(Tail(ss), sep)

RECURSIVE TrimStart(_)
TrimStart(s) == IF s # <<>> /\ Head(s) = " " THEN TrimStart(Tail(s)) ELSE s

RECURSIVE TrimEnd(_)
TrimEnd(s) == IF s # <<>> /\ Last(s) = " " THEN TrimEnd(DropLast(s)) ELSE s

\* String.prototype.trim
Trim(s) == TrimEnd(TrimStart(s))

At(s, i) == IF i >= 1 /\ i <= Len(s) THEN s[i] ELSE ""

-----------------------------------------------------------------------------
(* splitSelectors *)

RECURSIVE SplitFrom(_, _, _, _, _, _)
SplitFrom(text, i, selectors, current, depth, quote) ==
  IF i > Len(text)
  THEN IF Trim(current) # <<>> THEN Append(selectors, Trim(current)) ELSE selectors
  ELSE LET char == text[i] IN
    IF quote # ""
    THEN SplitFrom(text, i + 1, selectors, Append(current, char), depth,
                   IF char = quote /\ At(text, i - 1) # "\\" THEN "" ELSE quote)
    ELSE IF char = "\"" \/ char = "'"
    THEN SplitFrom(text, i + 1, selectors, Append(current, char), depth, char)
    ELSE IF char = "(" \/ char = "["
    THEN SplitFrom(text, i + 1, selectors, Append(current, char), depth + 1, quote)
    ELSE IF char = ")" \/ char = "]"
    THEN SplitFrom(text, i + 1, selectors, Append(current, char),
                   IF depth - 1 > 0 THEN depth - 1 ELSE 0, quote)
    ELSE IF char = "," /\ depth = 0
    THEN SplitFrom(text, i + 1,
                   IF Trim(current) # <<>> THEN Append(selectors, Trim(current))
                   ELSE selectors,
                   <<>>, depth, quote)
    ELSE SplitFrom(text, i + 1, selectors, Append(current, char), depth, quote)

splitSelectors(selectorText) == SplitFrom(selectorText, 1, <<>>, <<>>, 0, "")

-----------------------------------------------------------------------------
(* normalizeSelector: three global regular-expression replacements *)

\* The alternatives of the third expression, in the order the source lists them.
StatePseudos ==
  << <<"hover">>, <<"active">>, <<"focus">>, <<"focus", "-", "visible">>,
     <<"focus", "-", "w", "ithin">>, <<"visited">>, <<"link">>, <<"checked">>,
     <<"disabled">>, <<"enabled">>, <<"target">> >>

HasAt(s, i, pat) ==
  /\ i + Len(pat) - 1 <= Len(s)
  /\ \A k \in 1..Len(pat) : s[i + k - 1] = pat[k]

\* The characters of the class [\\w-] as the source writes it: a backslash,
\* the letter w and the hyphen.
NameClass == {"\\", "w", "-"}

RECURSIVE ClassRun(_, _)
ClassRun(s, i) == IF At(s, i) \in NameClass THEN 1 + ClassRun(s, i + 1) ELSE 0

\* Length of the match of expression pat that starts at position i; 0 if none.
MatchLen(pat, s, i) ==
  IF pat = 1 THEN        \* /::?before|::?after/gi
    IF HasAt(s, i, <<":", ":", "before">>) THEN 3
    ELSE IF HasAt(s, i, <<":", "before">>) THEN 2
    ELSE IF HasAt(s, i, <<":", ":", "after">>) THEN 3
    ELSE IF HasAt(s, i, <<":", "after">>) THEN 2
    ELSE 0
  ELSE IF pat = 2 THEN   \* /::[\\w-]+/g
    IF HasAt(s, i, <<":", ":">>) /\ ClassRun(s, i + 2) > 0
    THEN 2 + ClassRun(s, i + 2) ELSE 0
  ELSE                   \* /:(hover|active|focus|...)/gi
    IF At(s, i) = ":" /\ \E k \in 1..Len(StatePseudos) : HasAt(s, i + 1, StatePseudos[k])
    THEN 1 + Len(StatePseudos[CHOOSE k \in 1..Len(StatePseudos) :
                   /\ HasAt(s, i + 1, StatePseudos[k])
                   /\ \A j \in 1..(k - 1) : ~HasAt(s, i + 1, StatePseudos[j])])
    ELSE 0

\* String.prototype.replace(pat, ''): left to right, matches do not overlap.
RECURSIVE RemoveAll(_, _, _)
RemoveAll(pat, s, i) ==
  IF i > Len(s) THEN <<>>
  ELSE IF MatchLen(pat, s, i) > 0 THEN RemoveAll(pat, s, i + MatchLen(pat, s, i))
  ELSE <<s[i]>> \o RemoveAll(pat, s, i + 1)

normalizeSelector(selector) ==
  Trim(RemoveAll(3, RemoveAll(2, RemoveAll(1, selector, 1), 1), 1))

-----------------------------------------------------------------------------
(* The live tree as document.querySelector sees it *)

\* Type selectors the engine parses; "*" and "html" always have a node.
TypeNames == {"*", "html", "body", "a", "b"}

\* The names that have a node in the live tree at capture time.
LiveNames == {"*", "html", "body", "a"}

\* Pseudo-elements the engine parses (they never select an element).
KnownPseudoElements == {"before", "after"}

RECURSIVE PseudoTail(_, _)
\* "ok" when the tokens from i on are pseudo-classes and pseudo-elements the
\* engine parses, "bad" when it rejects them (a SyntaxError).
PseudoTail(s, i) ==
  IF i > Len(s) THEN "ok"
  ELSE IF HasAt(s, i, <<":", ":">>) /\ At(s, i + 2) \in KnownPseudoElements
  THEN PseudoTail(s, i + 3)
  ELSE IF At(s, i) = ":" /\ At(s, i + 1) \in KnownPseudoElements
  THEN PseudoTail(s, i + 2)
  ELSE IF At(s, i) = ":" /\ \E k \in 1..Len(StatePseudos) : HasAt(s, i + 1, StatePseudos[k])
  THEN PseudoTail(s, i + 1 +
         Len(StatePseudos[CHOOSE k \in 1..Len(StatePseudos) :
               /\ HasAt(s, i + 1, StatePseudos[k])
               /\ \A j \in 1..Len(StatePseudos) :
                    HasAt(s, i + 1, StatePseudos[j]) =>
                      Len(StatePseudos[j]) <= Len(StatePseudos[k])]))
  ELSE "bad"

\* document.querySelector(selector): "node", "null" or "throws".  No element is
\* hovered, focused, active or otherwise in a transient state during a capture,
\* and a selector with a pseudo-element selects no element.
querySelector(selector) ==
  LET s == Trim(selector) IN
    IF s = <<>> \/ Head(s) \notin TypeNames \/ PseudoTail(s, 2) = "bad" THEN "throws"
    ELSE IF Len(s) = 1 /\ Head(s) \in LiveNames THEN "node"
    ELSE "null"

selectorMatches(selector) ==
  IF querySelector(selector) # "throws"
  THEN querySelector(selector) = "node"
  ELSE LET normalized == normalizeSelector(selector) IN
    IF normalized = <<>> \/ normalized = selector THEN FALSE
    ELSE querySelector(normalized) = "node"

\* selectors.every(selectorMatches)
SomeMatches_All(selectors) == \A k \in 1..Len(selectors) : selectorMatches(selectors[k])

\* selectors.some(selectorMatches)
SomeMatches(selectors) == \E k \in 1..Len(selectors) : selectorMatches(selectors[k])

-----------------------------------------------------------------------------
(* Style rules and style sheets *)

\* The absent value: null, undefined.
NULL == "<null>"

\* A CSSRule.  type is the class the dispatch of collectRules tests; sel is
\* selectorText, cond is conditionText, text is cssText, rules is cssRules,
\* target is the styleSheet of an import rule (0 when it is null), readable
\* tells whether reading cssRules of the rule returns (TRUE) or raises.
Rule(type, sel, cond, text, rules, target, readable) ==
  [type |-> type, sel |-> sel, cond |-> cond, text |-> text, rules |-> rules,
   target |-> target, readable |-> readable]

StyleRule(sel, text) == Rule("style", sel, "", <<text>>, <<>>, 0, TRUE)
MediaRule(cond, rules) == Rule("media", <<>>, cond, <<"@media", cond>>, rules, 0, TRUE)
SupportsRule(cond, rules) == Rule("supports", <<>>, cond, <<"@supports", cond>>, rules, 0, TRUE)
KeyframesRule(text) == Rule("keyframes", <<>>, "", <<text>>, <<>>, 0, TRUE)
FontFaceRule(text) == Rule("fontface", <<>>, "", <<text>>, <<>>, 0, TRUE)
ImportRule(target) == Rule("import", <<>>, "", <<"@import">>, <<>>, target, TRUE)
GroupingRule(text, rules, readable) == Rule("group", <<>>, "", <<text>>, rules, 0, readable)
OtherRule(text) == Rule("other", <<>>, "", <<text>>, <<>>, 0, TRUE)

\* The sheet of the style element that injectFreezeStyles adds.
FreezeSheet == NSheets + 1

FreezeRules ==
  << StyleRule(<<"*">>, "*{animation:none!important}"),
     StyleRule(<<"html", ",", " ", "body">>, "html,body{scroll-behavior:auto!important}") >>

\* Conditions the host evaluates: CSS.supports(cond), and whether a media
\* condition holds in the live document.
SupportedConditions == {"(display:grid)"}
MediaConditionsTrueNow == {"screen"}

CssSupports(cond) == cond \in SupportedConditions

\* Rule lists a sheet of the page can hold.  An import rule precedes every
\* other rule of its sheet, as the CSS grammar requires.
PlainList ==
  << StyleRule(<<"a">>, "a{}"), StyleRule(<<"b">>, "b{}") >>

ImportingList(t) ==
  << ImportRule(t),
     StyleRule(<<"b", ",", " ", "a">>, "b,a{}"),
     StyleRule(<<"b", ",", "b", ":", ":", "before">>, "b,b::before{}") >>

AtRuleList ==
  << FontFaceRule("@font-face{f}"), KeyframesRule("@keyframes k{}"),
     MediaRule("print", << StyleRule(<<"a">>, "a{}"), StyleRule(<<"b">>, "b{}") >>),
     MediaRule("screen", << StyleRule(<<"b">>, "b{}"), KeyframesRule("@keyframes k{}") >>) >>

ConditionalList ==
  << ImportRule(0),
     SupportsRule("(display:foo)", << StyleRule(<<"a">>, "a{}") >>),
     SupportsRule("(display:grid)",
                  << StyleRule(<<"a", ":", ":", "w">>, "a::w{}"), FontFaceRule("@font-face{f}") >>),
     GroupingRule("@layer x{a{}}", << StyleRule(<<"a">>, "a{}") >>, TRUE),
     OtherRule("@namespace") >>

OpaqueList ==
  << StyleRule(<<"a">>, "a{}"),
     GroupingRule("@container{b{}}", << StyleRule(<<"b">>, "b{}") >>, FALSE) >>

RuleLists ==
  {PlainList, AtRuleList, ConditionalList, OpaqueList}
    \cup {ImportingList(t) : t \in 1..NSheets}

\* A CSSStyleSheet: href (0 when null), access (does reading cssRules return),
\* rules (its cssRules, also what its text parses to).
Sheet(href, access, rules) == [href |-> href, access |-> access, rules |-> rules]

-----------------------------------------------------------------------------
(* rewriteCssUrls and the parse of a fetched text *)

\* The expression of rewriteCssUrls as the source writes it,
\*   /url\\(\\s*(?:['"]?)([^'")]+)(?:['"]?)\\s*\\)/gi ,
\* reads: "url", a backslash, then the captured group: a backslash, letters s,
\* an optional quote, one or more characters other than quotes and ")", an
\* optional quote, a backslash, letters s, a backslash.
Quotes == {"'", "\""}

UrlMatchEnds(s, i) ==
  IF ~HasAt(s, i, <<"url", "\\", "\\">>) THEN {}
  ELSE {e \in (i + 3)..Len(s) :
          \E a \in (i + 3)..e, b \in (i + 3)..e, q1 \in {0, 1}, q2 \in {0, 1} :
            /\ \A k \in (i + 3)..(a - 1) : s[k] = "s"
            /\ q1 = 1 => s[a] \in Quotes
            /\ a + q1 <= b
            /\ \A k \in (a + q1)..b : s[k] \notin Quotes \cup {")"}
            /\ q2 = 1 => At(s, b + 1) \in Quotes
            /\ b + q2 + 1 < e
            /\ s[b + q2 + 1] = "\\"
            /\ \A k \in (b + q2 + 2)..(e - 1) : s[k] = "s"
            /\ s[e] = "\\"}

\* Length of the match that starts at i (the quantifiers are greedy); 0 if none.
UrlMatchLen(s, i) ==
  IF UrlMatchEnds(s, i) = {} THEN 0
  ELSE (CHOOSE e \in UrlMatchEnds(s, i) : \A f \in UrlMatchEnds(s, i) : f <= e) - i + 1

\* new URL(url, baseUrl).href: the reference resolved against the base; the
\* URL parser reads a backslash as a slash and percent-encodes a double quote
\* and a blank.
Absolute(url, baseUrl) ==
  <<"resolved:">> \o
    [k \in 1..Len(url) |->
       IF url[k] = "\\" THEN "/"
       ELSE IF url[k] = "\"" THEN "%22"
       ELSE IF url[k] = " " THEN "%20"
       ELSE url[k]]

RECURSIVE RewriteFrom(_, _, _)
RewriteFrom(s, i, baseUrl) ==
  IF i > Len(s) THEN <<>>
  ELSE IF UrlMatchLen(s, i) > 0
  THEN LET n == UrlMatchLen(s, i)
           url == SubSeq(s, i + 2, i + n - 1)
       IN (IF Head(url) \in {"data:", "blob:", "about:", "#"}
           THEN SubSeq(s, i, i + n - 1)
           ELSE <<"url", "(", "\"">> \o Absolute(url, baseUrl) \o <<"\"", ")">>)
          \o RewriteFrom(s, i + n, baseUrl)
  ELSE <<s[i]>> \o RewriteFrom(s, i + 1, baseUrl)

rewriteCssUrls(cssText, baseUrl) ==
  IF baseUrl = 0 THEN cssText ELSE RewriteFrom(cssText, 1, baseUrl)

\* inlineAssets is the constant false
inlineCssUrls(cssText, baseUrl) == rewriteCssUrls(cssText, baseUrl)

\* parseRulesFromText of the rewritten text of a sheet whose text states the
\* rule list rules: a style element of a detached document.  The detached
\* document loads no import, so an import rule has no styleSheet, and every
\* nested rule list of the fresh sheet can be read.
RECURSIVE ParsedRules(_, _)
ParsedRules(rules, baseUrl) ==
  [k \in 1..Len(rules) |->
     [rules[k] EXCEPT !.text = inlineCssUrls(@, baseUrl),
                      !.target = 0,
                      !.readable = TRUE,
                      !.rules = ParsedRules(@, baseUrl)]]

-----------------------------------------------------------------------------
(* fetchStylesheetText: the outcomes of retrieving an address *)

\* What retrieving an address can give: a network error, a non-success status,
\* a success status with an empty body, a success status with style text.
Outcomes == {"neterr", "http404", "empty", "css"}

\* The direct path, lines 248-258.
DirectResult(o) ==
  IF o = "neterr" THEN [text |-> NULL, error |-> "Failed to fetch"]
  ELSE IF o = "http404" THEN [text |-> NULL, error |-> "HTTP 404"]
  ELSE IF o = "empty" THEN [text |-> "", error |-> NULL]
  ELSE [text |-> "css", error |-> NULL]

\* The background handler's answer to FETCH_CSS.
BackgroundResponse(o) ==
  IF o = "neterr" THEN [ok |-> FALSE, text |-> NULL, error |-> "Failed to fetch"]
  ELSE IF o = "http404" THEN [ok |-> FALSE, text |-> NULL, error |-> "HTTP 404"]
  ELSE IF o = "empty" THEN [ok |-> TRUE, text |-> "", error |-> NULL]
  ELSE [ok |-> TRUE, text |-> "css", error |-> NULL]

\* JavaScript's falsy test of a string or an absent value
Falsy(v) == v = NULL \/ v = ""

TimeoutResponse == [ok |-> FALSE, text |-> NULL, error |-> "Background fetch timeout"]
FailedResponse == [ok |-> FALSE, text |-> NULL, error |-> "Background fetch failed"]
ChannelErrorResponse == [ok |-> FALSE, text |-> NULL, error |-> "Extension context invalidated."]

\* The value the sendMessage callback resolves with; result is <<>> when the
\* callback runs without a result object, else <<the object>>.
CallbackResponse(result) == IF result = <<>> THEN FailedResponse ELSE result[1]

\* The relay path after the promise resolved, lines 243-246.
RelayResult(response) ==
  IF ~response.ok \/ Falsy(response.text)
  THEN [text |-> NULL,
        error |-> IF Falsy(response.error) THEN "Background fetch failed" ELSE response.error]
  ELSE [text |-> response.text, error |-> NULL]

-----------------------------------------------------------------------------
(* The document's elements *)

\* An element of the document: its tag, the attributes the code selects on
\* (rel, as, data-extension-id), mark (data-pc-freeze, data-pc-extracted or the
\* http-equiv of a meta element), where it sits and its text content.
El(tag, rel, as, ext, mark, where, text) ==
  [tag |-> tag, rel |-> rel, as |-> as, ext |-> ext, mark |-> mark,
   where |-> where, text |-> text]

CspContent ==
  <<"default-src 'self' data:;", "script-src 'none';", "object-src 'none';",
    "base-uri 'none';">>

FreezeEl == El("style", "", "", FALSE, "data-pc-freeze", "head", <<"freeze">>)
ExtractedEl(css) == El("style", "", "", FALSE, "data-pc-extracted", "head", css)
CspEl == El("meta", "", "", FALSE, "Content-Security-Policy", "head", CspContent)

\* The elements a page is assembled from, in tree order.
Palette ==
  << El("script", "", "", FALSE, "", "head", <<>>),
     El("link", "stylesheet", "", FALSE, "", "head", <<>>),
     El("link", "alternate stylesheet", "", FALSE, "", "head", <<>>),
     El("style", "", "", FALSE, "", "head", <<"page">>),
     El("meta", "", "", FALSE, "Content-Security-Policy", "head", <<"script-src 'self';">>),
     El("link", "preload", "script", FALSE, "", "head", <<>>),
     El("link", "preload", "style", FALSE, "", "head", <<>>),
     El("link", "modulepreload", "", FALSE, "", "head", <<>>),
     El("base", "", "", FALSE, "", "head", <<>>),
     El("div", "", "", TRUE, "", "body", <<>>),
     El("plasmo-csui", "", "", FALSE, "", "body", <<>>),
     El("script", "", "", FALSE, "", "body", <<>>),
     El("style", "", "", FALSE, "", "body", <<"page">>),
     El("div", "", "", FALSE, "", "body", <<>>) >>

RECURSIVE Pick(_, _, _)
\* The elements of seq whose index is in S, from index i on, in order.
Pick(seq, S, i) ==
  IF i > Len(seq) THEN <<>>
  ELSE (IF i \in S THEN <<seq[i]>> ELSE <<>>) \o Pick(seq, S, i + 1)

Pages(head) ==
  {Pick(Palette, S, 1) :
     S \in {T \in SUBSET (1..Len(Palette)) :
              /\ Cardinality(T) <= MaxElems
              /\ head \/ \A k \in T : Palette[k].where = "body"}}

-----------------------------------------------------------------------------
(* State *)

\* Calls of runClone that can be pending together before the popup takes no
\* further click
MaxCalls == 2

VARIABLES
  options,        \* CloneOptions
  tabPresent,     \* chrome.tabs.query finds an active tab with an id
  hasHead,        \* the document has a head element
  page,           \* the elements of the live document before the capture
  sheets,         \* the style sheets: page sheets 1..NSheets and the freeze sheet
  docSheets,      \* document.styleSheets of the page, in order
  net,            \* what retrieving the address of each sheet gives
  relayAvail,     \* chrome.runtime.sendMessage exists
  parseOk,        \* a style element of a detached document gets a sheet
  pc,             \* where cloneActiveTab stands
  liveFreeze,     \* the data-pc-freeze style element is in the live document
  sheetList,      \* Array.from(document.styleSheets) of collectUsedCss
  docIdx,         \* position of the for loop over sheetList
  stack,          \* the pending calls of collectFromStylesheet and collectRules
  visitedSheets,
  usedRules,
  fontFaces,
  keyframes,
  warnings,
  relay,          \* per sheet, the promise of the relay path of its fetch
  fetched,        \* per sheet, what fetchStylesheetText returned (<<>> before)
  extractedCss,
  output,         \* <<what the injected function returned>>, <<>> before
  result,         \* <<what cloneActiveTab returned>>, <<>> before
  error,          \* the message cloneActiveTab throws, NULL without
  visits,         \* per sheet, how often collectFromStylesheet went past its guard
  issued,         \* the retrievals issued, in order: <<sheet, path>>
  call,           \* a function of the injected script applied on its own: name, argument
  ret,            \* what that function returned
  isWorking,      \* useState(false) of the popup
  status,         \* useState(STATUS_IDLE)
  cloneWarnings,  \* useState([])
  screen,         \* what the popup last rendered: the buttons' disabled, the warnings shown
  running,        \* the calls of runClone that have not reached the end of their finally
  trigger,        \* the handler that awaits the running runClone
  finishing       \* the handlers that await downloadHtml or clipboard.writeText

popupVars == <<isWorking, status, cloneWarnings, screen, running, trigger, finishing>>
envVars == <<options, tabPresent, hasHead, page, sheets, docSheets, net, relayAvail, parseOk,
             call, ret, popupVars>>
travVars == <<stack, visitedSheets, usedRules, fontFaces, keyframes, warnings, fetched, visits>>
vars == <<options, tabPresent, hasHead, page, sheets, docSheets, net, relayAvail, parseOk,
          pc, liveFreeze, sheetList, docIdx, stack, visitedSheets, usedRules, fontFaces,
          keyframes, warnings, relay, fetched, extractedCss, output, result, error, visits,
          issued, call, ret, isWorking, status, cloneWarnings, screen, running, trigger,
          finishing>>

AllSheets == 1..(NSheets + 1)

IdleRelay ==
  [settled |-> FALSE, timer |-> "none", msg |-> "none", reply |-> <<>>, resolutions |-> <<>>]

Options(rs, ros, uhf, csp) ==
  [removeScripts |-> rs, removeOriginalStyles |-> ros, useHostFetch |-> uhf, addCsp |-> csp]

WithFreeze(pageSheets) ==
  [s \in AllSheets |-> IF s = FreezeSheet THEN Sheet(0, TRUE, FreezeRules) ELSE pageSheets[s]]

\* Does reading the sheet's rules, or a nested rule list, raise?
RECURSIVE AllReadable(_)
AllReadable(rules) ==
  \A k \in 1..Len(rules) : rules[k].readable /\ AllReadable(rules[k].rules)

\* The sheets of a page and what their addresses give.  The outcome of an
\* address that is never retrieved, and the rules of a sheet that are never
\* read, are fixed.
SheetChoices(s) ==
  {[sheet |-> Sheet(s, TRUE, l), net |-> "css"] : l \in {m \in RuleLists : AllReadable(m)}}
  \cup {[sheet |-> Sheet(0, TRUE, l), net |-> "css"] : l \in {m \in RuleLists : ~AllReadable(m)}}
  \cup {[sheet |-> Sheet(s, TRUE, l), net |-> o] :
          l \in {m \in RuleLists : ~AllReadable(m)}, o \in {"http404", "css"}}
  \cup {[sheet |-> Sheet(0, FALSE, PlainList), net |-> "css"]}
  \cup {[sheet |-> Sheet(s, FALSE, PlainList), net |-> "http404"]}
  \cup {[sheet |-> Sheet(s, FALSE, l), net |-> "css"] : l \in {AtRuleList, ConditionalList}}

\* Sheets that differ in what blocks them; the address of the first sheet
\* gives every outcome.
SimpleChoices(s) ==
  {[sheet |-> Sheet(s, TRUE, PlainList), net |-> "css"],
   [sheet |-> Sheet(0, FALSE, PlainList), net |-> "css"]}
  \cup {[sheet |-> Sheet(s, FALSE, PlainList), net |-> o] :
          o \in IF s = 1 THEN Outcomes ELSE {"http404", "css"}}

DocLists == {[k \in 1..n |-> k] : n \in 1..NSheets}

\* The status texts of the popup
STATUS_IDLE == "Ready to capture the current page."
STATUS_PREPARING == "Preparing the page snapshot..."
STATUS_READY == "Snapshot ready."

\* What the popup renders from its state: disabled={isWorking} on the three
\* buttons, and the warnings box.
Rendered(working, shownWarnings) == [disabled |-> working, warnings |-> shownWarnings]

\* The popup after runClone, called by the handler of a button, has run up to
\* its await of cloneActiveTab and React has rendered the new state.
PopupWorking ==
  /\ isWorking = TRUE
  /\ status = STATUS_PREPARING
  /\ cloneWarnings = <<>>
  /\ screen = Rendered(TRUE, <<>>)
  /\ running = 1
  /\ trigger = "download"
  /\ finishing = {}

\* The state of a call of cloneActiveTab that has just begun
FreshCapture ==
  /\ liveFreeze = FALSE
  /\ sheetList = <<>>
  /\ docIdx = 1
  /\ stack = <<>>
  /\ visitedSheets = {}
  /\ usedRules = <<>>
  /\ fontFaces = <<>>
  /\ keyframes = <<>>
  /\ warnings = <<>>
  /\ relay = [s \in AllSheets |-> IdleRelay]
  /\ fetched = [s \in AllSheets |-> <<>>]
  /\ extractedCss = <<>>
  /\ output = <<>>
  /\ result = <<>>
  /\ error = NULL
  /\ visits = [s \in AllSheets |-> 0]
  /\ issued = <<>>

InitProgram ==
  /\ PopupWorking
  /\ pc = "start"
  /\ FreshCapture

\* Pages that differ in their style sheets; the fetch takes the direct path.
InitTraversal ==
  /\ options = Options(TRUE, TRUE, FALSE, FALSE)
  /\ tabPresent = TRUE
  /\ hasHead = TRUE
  /\ page = <<>>
  /\ relayAvail = TRUE
  /\ parseOk = TRUE
  /\ docSheets \in DocLists
  /\ \E c \in [1..NSheets -> UNION {SheetChoices(s) : s \in 1..NSheets}] :
       /\ \A s \in 1..NSheets : c[s] \in SheetChoices(s)
       /\ sheets = WithFreeze([s \in 1..NSheets |-> c[s].sheet])
       /\ net = [s \in AllSheets |-> IF s = FreezeSheet THEN "css" ELSE c[s].net]

\* Pages that differ in what blocks their sheets and in the fetch path.
InitRelay ==
  /\ options \in {Options(TRUE, TRUE, uhf, FALSE) : uhf \in BOOLEAN}
  /\ tabPresent = TRUE
  /\ hasHead = TRUE
  /\ page = <<>>
  /\ relayAvail \in BOOLEAN
  /\ parseOk \in BOOLEAN
  /\ options.useHostFetch \/ relayAvail
  /\ parseOk \/ ~options.useHostFetch
  /\ docSheets = [k \in 1..NSheets |-> k]
  /\ \E c \in [1..NSheets -> UNION {SimpleChoices(s) : s \in 1..NSheets}] :
       /\ \A s \in 1..NSheets : c[s] \in SimpleChoices(s)
       /\ sheets = WithFreeze([s \in 1..NSheets |-> c[s].sheet])
       /\ net = [s \in AllSheets |-> IF s = FreezeSheet THEN "css" ELSE c[s].net]

\* Pages that differ in their elements, captured under every option.
InitAssembly ==
  /\ options \in {Options(rs, ros, FALSE, csp) : rs \in BOOLEAN, ros \in BOOLEAN, csp \in BOOLEAN}
  /\ tabPresent \in BOOLEAN
  /\ hasHead \in BOOLEAN
  /\ page \in Pages(hasHead)
  /\ relayAvail = TRUE
  /\ parseOk = TRUE
  /\ docSheets = [k \in 1..NSheets |-> k]
  /\ sheets = WithFreeze([s \in 1..NSheets |->
                            Sheet(s, TRUE, IF s = 1 THEN PlainList
                                           ELSE << StyleRule(<<"b">>, "b{}") >>)])
  /\ net = [s \in AllSheets |-> "css"]

\* No function is applied on its own during a capture.
NoCall == [fn |-> "", arg |-> <<>>, base |-> 0]
NoRet == [step |-> 0, text |-> <<>>, again |-> <<>>, clauses |-> <<>>, flag |-> FALSE]

Init ==
  /\ InitProgram
  /\ call = NoCall
  /\ ret = NoRet
  /\ (InitTraversal \/ InitRelay \/ InitAssembly)

-----------------------------------------------------------------------------
(* cloneActiveTab up to collectUsedCss *)

\* chrome.tabs.query and the test of tab.id
QueryTab ==
  /\ pc = "start"
  /\ IF tabPresent
     THEN pc' = "inject" /\ error' = error
     ELSE pc' = "failed" /\ error' = "No active tab detected."
  /\ UNCHANGED <<envVars, travVars, liveFreeze, sheetList, docIdx, relay, extractedCss,
                 output, result, issued>>

\* injectFreezeStyles: document.head?.appendChild(style)
injectFreezeStyles(head) == head

\* The injected function up to its first await: the freeze style, pauseMedia.
Freeze ==
  /\ pc = "inject"
  /\ liveFreeze' = injectFreezeStyles(hasHead)
  /\ pc' = "frames"
  /\ UNCHANGED <<envVars, travVars, sheetList, docIdx, relay, extractedCss, output,
                 result, error, issued>>

\* Array.from(document.styleSheets): the page's sheets, then the sheet of the
\* freeze style element when it is in the document.
LiveStyleSheets == docSheets \o (IF liveFreeze THEN <<FreezeSheet>> ELSE <<>>)

\* waitForStableFrames(2) is over; collectUsedCss starts if styles are removed.
StableFrames ==
  /\ pc = "frames"
  /\ IF options.removeOriginalStyles
     THEN pc' = "collect" /\ sheetList' = LiveStyleSheets
     ELSE pc' = "assemble" /\ sheetList' = sheetList
  /\ UNCHANGED <<envVars, travVars, liveFreeze, docIdx, relay, extractedCss, output,
                 result, error, issued>>

-----------------------------------------------------------------------------
(* collectUsedCss: collectFromStylesheet and collectRules *)

SheetFrame(s, phase) ==
  [kind |-> "sheet", sheet |-> s, phase |-> phase, rules |-> <<>>, i |-> 0, collected |-> <<>>]

RulesFrame(s, rules) ==
  [kind |-> "rules", sheet |-> s, phase |-> "", rules |-> rules, i |-> 1, collected |-> <<>>]

\* A collected text with the sheet and the rule of that sheet it comes from.
Entry(text, src, idx) == [text |-> text, src |-> src, idx |-> idx]

Texts(entries) == [k \in 1..Len(entries) |-> entries[k].text]

BlockedWarning(s) ==
  [kind |-> "cssRules blocked for stylesheet: ", href |-> sheets[s].href, error |-> ""]

FailedWarning(s, err) ==
  [kind |-> "Failed to fetch stylesheet: ", href |-> sheets[s].href, error |-> err]

\* A traversal that keeps no record of the sheets it entered
MarkVisited_Forgets(visited, s) == visited

\* visitedSheets.add(sheet)
MarkVisited(visited, s) == visited \cup {s}

\* Array.prototype.push in the place of Set.prototype.add
AddText_Push(set, e) == Append(set, e)

\* Set.prototype.add on a set of texts kept in insertion order
AddText(set, e) ==
  IF \E k \in 1..Len(set) : set[k].text = e.text THEN set ELSE Append(set, e)

Cur == Last(stack)
CurRule == Cur.rules[Cur.i]

AtRule(type) ==
  /\ pc = "collect"
  /\ stack # <<>>
  /\ Cur.kind = "rules"
  /\ Cur.i <= Len(Cur.rules)
  /\ CurRule.type = type

Advance(stk) == [stk EXCEPT ![Len(stk)].i = @ + 1]

Collect(stk, e) ==
  [stk EXCEPT ![Len(stk)].collected = Append(@, e), ![Len(stk)].i = @ + 1]

\* A catch block that goes to the fetch without recording the blocked notice
CatchBlocked_Silent(s, base) ==
  IF sheets[s].href = 0
  THEN stack' = base /\ warnings' = warnings
  ELSE /\ warnings' = warnings
       /\ stack' = Append(base, SheetFrame(s, "fetch"))

\* A catch block that does not look at the sheet's address
CatchBlocked_NoAddressTest(s, base) ==
  /\ warnings' = Append(warnings, BlockedWarning(s))
  /\ stack' = Append(base, SheetFrame(s, "fetch"))

\* The catch block of collectFromStylesheet up to the call of
\* fetchStylesheetText; base holds the callers of collectFromStylesheet(s).
CatchBlocked(s, base) ==
  IF sheets[s].href = 0
  THEN stack' = base /\ warnings' = warnings
  ELSE /\ warnings' = Append(warnings, BlockedWarning(s))
       /\ stack' = Append(base, SheetFrame(s, "fetch"))

\* A traversal none of whose calls catches
TryFrames_None(stk) == {}

\* The pending calls of collectFromStylesheet that are inside their try block
TryFrames(stk) == {k \in 1..Len(stk) : stk[k].kind = "sheet" /\ stk[k].phase = "try"}

\* An exception raised while stk is pending: the innermost call of
\* collectFromStylesheet that is inside its try block catches it; with none,
\* the injected function rejects.
Raise(stk) ==
  IF TryFrames(stk) = {}
  THEN pc' = "threw" /\ stack' = <<>> /\ warnings' = warnings
  ELSE LET k == CHOOSE j \in TryFrames(stk) : \A m \in TryFrames(stk) : m <= j IN
         pc' = pc /\ CatchBlocked(stk[k].sheet, SubSeq(stk, 1, k - 1))

\* collectFromStylesheet(s) up to its first await; reading sheet.cssRules
\* raises when access to the sheet's rules is denied.
CallSheet(s, base) ==
  IF s \in visitedSheets
  THEN stack' = base /\ UNCHANGED <<pc, visitedSheets, visits, warnings>>
  ELSE /\ visitedSheets' = MarkVisited(visitedSheets, s)
       /\ visits' = [visits EXCEPT ![s] = @ + 1]
       /\ IF sheets[s].access
          THEN /\ stack' = base \o <<SheetFrame(s, "try"), RulesFrame(s, sheets[s].rules)>>
               /\ UNCHANGED <<pc, warnings>>
          ELSE Raise(Append(base, SheetFrame(s, "try")))

\* A loop that does not wait for the call it made
PreviousReturned_NotAwaited == TRUE

\* await collectFromStylesheet(sheet): the loop goes on when the call of the
\* previous iteration, with everything it called, has returned.
PreviousReturned == stack = <<>>

\* The for loop over the document's sheets, lines 361-363.
DocLoop ==
  /\ pc = "collect"
  /\ PreviousReturned
  /\ docIdx <= Len(sheetList)
  /\ CallSheet(sheetList[docIdx], <<>>)
  /\ docIdx' = docIdx + 1
  /\ UNCHANGED <<envVars, liveFreeze, sheetList, usedRules, fontFaces, keyframes,
                 relay, fetched, extractedCss, output, result, error, issued>>

\* splitSelectors(rule.selectorText).some(selectorMatches)
RuleRelevant(rule) == SomeMatches(splitSelectors(rule.sel))

StyleRuleStep ==
  /\ AtRule("style")
  /\ stack' = IF RuleRelevant(CurRule)
              THEN Collect(stack, Entry(CurRule.text, Cur.sheet, Cur.i))
              ELSE Advance(stack)
  /\ UNCHANGED <<envVars, pc, liveFreeze, sheetList, docIdx, visitedSheets, usedRules,
                 fontFaces, keyframes, warnings, relay, fetched, extractedCss, output, result,
                 error, visits, issued>>

\* Does collectRules go into the rule's nested list?
EntersMedia(rule) == TRUE
EntersSupports(rule) == CssSupports(rule.cond)

MediaRuleStep ==
  /\ AtRule("media")
  /\ CurRule.readable
  /\ stack' = IF EntersMedia(CurRule)
              THEN Append(stack, RulesFrame(Cur.sheet, CurRule.rules))
              ELSE Advance(stack)
  /\ UNCHANGED <<envVars, pc, liveFreeze, sheetList, docIdx, visitedSheets, usedRules,
                 fontFaces, keyframes, warnings, relay, fetched, extractedCss, output, result,
                 error, visits, issued>>

SupportsRuleStep ==
  /\ AtRule("supports")
  /\ EntersSupports(CurRule) => CurRule.readable
  /\ stack' = IF EntersSupports(CurRule)
              THEN Append(stack, RulesFrame(Cur.sheet, CurRule.rules))
              ELSE Advance(stack)
  /\ UNCHANGED <<envVars, pc, liveFreeze, sheetList, docIdx, visitedSheets, usedRules,
                 fontFaces, keyframes, warnings, relay, fetched, extractedCss, output, result,
                 error, visits, issued>>

KeyframesRuleStep ==
  /\ AtRule("keyframes")
  /\ keyframes' = AddText(keyframes, Entry(CurRule.text, Cur.sheet, Cur.i))
  /\ stack' = Advance(stack)
  /\ UNCHANGED <<envVars, pc, liveFreeze, sheetList, docIdx, visitedSheets, usedRules,
                 fontFaces, warnings, relay, fetched, extractedCss, output, result, error,
                 visits, issued>>

FontFaceRuleStep ==
  /\ AtRule("fontface")
  /\ fontFaces' = AddText(fontFaces, Entry(CurRule.text, Cur.sheet, Cur.i))
  /\ stack' = Advance(stack)
  /\ UNCHANGED <<envVars, pc, liveFreeze, sheetList, docIdx, visitedSheets, usedRules,
                 keyframes, warnings, relay, fetched, extractedCss, output, result, error,
                 visits, issued>>

ImportRuleStep ==
  /\ AtRule("import")
  /\ IF CurRule.target # 0 /\ CurRule.target \notin visitedSheets
     THEN CallSheet(CurRule.target, Advance(stack))
     ELSE stack' = Advance(stack) /\ UNCHANGED <<pc, visitedSheets, visits, warnings>>
  /\ UNCHANGED <<envVars, liveFreeze, sheetList, docIdx, usedRules, fontFaces,
                 keyframes, relay, fetched, extractedCss, output, result, error, issued>>

\* 'cssRules' in rule
GroupRuleStep ==
  /\ AtRule("group")
  /\ CurRule.readable
  /\ stack' = Append(stack, RulesFrame(Cur.sheet, CurRule.rules))
  /\ UNCHANGED <<envVars, pc, liveFreeze, sheetList, docIdx, visitedSheets, usedRules,
                 fontFaces, keyframes, warnings, relay, fetched, extractedCss, output, result,
                 error, visits, issued>>

\* A rule none of the tests of collectRules takes
OtherRuleStep ==
  /\ AtRule("other")
  /\ stack' = Advance(stack)
  /\ UNCHANGED <<envVars, pc, liveFreeze, sheetList, docIdx, visitedSheets, usedRules,
                 fontFaces, keyframes, warnings, relay, fetched, extractedCss, output, result,
                 error, visits, issued>>

\* Reading the nested rule list of a group rule raises.
NestedThrow ==
  /\ pc = "collect"
  /\ stack # <<>>
  /\ Cur.kind = "rules"
  /\ Cur.i <= Len(Cur.rules)
  /\ \/ CurRule.type \in {"media", "group"}
     \/ CurRule.type = "supports" /\ EntersSupports(CurRule)
  /\ ~CurRule.readable
  /\ Raise(stack)
  /\ UNCHANGED <<envVars, liveFreeze, sheetList, docIdx, visitedSheets, usedRules,
                 fontFaces, keyframes, relay, fetched, extractedCss, output, result,
                 error, visits, issued>>

\* A media rule kept whatever its nested list gave
MediaKept_Always(rule, nested) == TRUE

\* What a group rule contributes once collectRules of its nested list returned
\* nested: a sequence of at most one text.
MediaKept(rule, nested) == nested # <<>>

GroupText(rule, nested) ==
  IF rule.type = "media"
  THEN IF MediaKept(rule, nested)
       THEN << <<"@media ", rule.cond, "{">> \o Flatten(Texts(nested)) \o <<"}">> >>
       ELSE <<>>
  ELSE IF rule.type = "supports"
  THEN IF nested # <<>>
       THEN << <<"@supports ", rule.cond, "{">> \o Flatten(Texts(nested)) \o <<"}">> >>
       ELSE <<>>
  ELSE IF nested # <<>> THEN <<rule.text>> ELSE <<>>

\* collectRules of a nested list returns to collectRules of the group's list.
ReturnToGroup ==
  /\ pc = "collect"
  /\ Len(stack) >= 2
  /\ Cur.kind = "rules"
  /\ Cur.i > Len(Cur.rules)
  /\ stack[Len(stack) - 1].kind = "rules"
  /\ LET below == DropLast(stack)
         parent == Last(below)
         kept == GroupText(parent.rules[parent.i], Cur.collected)
     IN stack' = IF kept # <<>>
                 THEN Collect(below, Entry(kept[1], parent.sheet, parent.i))
                 ELSE Advance(below)
  /\ UNCHANGED <<envVars, pc, liveFreeze, sheetList, docIdx, visitedSheets, usedRules,
                 fontFaces, keyframes, warnings, relay, fetched, extractedCss, output, result,
                 error, visits, issued>>

\* usedRules.unshift(...nested)
PushUsed_Front(used, nested) == nested \o used

\* usedRules.push(...nested)
PushUsed(used, nested) == used \o nested

\* collectRules of a sheet's list returns to collectFromStylesheet, which
\* pushes the texts and returns.
ReturnToSheet ==
  /\ pc = "collect"
  /\ Len(stack) >= 2
  /\ Cur.kind = "rules"
  /\ Cur.i > Len(Cur.rules)
  /\ stack[Len(stack) - 1].kind = "sheet"
  /\ usedRules' = PushUsed(usedRules, Cur.collected)
  /\ stack' = SubSeq(stack, 1, Len(stack) - 2)
  /\ UNCHANGED <<envVars, pc, liveFreeze, sheetList, docIdx, visitedSheets, fontFaces,
                 keyframes, warnings, relay, fetched, extractedCss, output, result, error,
                 visits, issued>>

\* [...fontFaces, ...keyframes, ...usedRules].join('\n')
ComposeCss(fonts, frames, used) == Join(Texts(fonts) \o Texts(frames) \o Texts(used), <<"\n">>)

\* The for loop is over: collectUsedCss returns the collected text.
CollectDone ==
  /\ pc = "collect"
  /\ stack = <<>>
  /\ docIdx > Len(sheetList)
  /\ extractedCss' = ComposeCss(fontFaces, keyframes, usedRules)
  /\ pc' = "assemble"
  /\ UNCHANGED <<envVars, travVars, liveFreeze, sheetList, docIdx, relay, output, result,
                 error, issued>>

-----------------------------------------------------------------------------
(* fetchStylesheetText and the rest of the catch block *)

FetchPending(s) ==
  /\ pc = "collect"
  /\ stack # <<>>
  /\ Cur.kind = "sheet"
  /\ Cur.phase = "fetch"
  /\ Cur.sheet = s

\* A test of the option alone
UseRelay_Unchecked == options.useHostFetch

\* useHostFetch && typeof chrome !== 'undefined' && chrome.runtime?.sendMessage
UseRelay == options.useHostFetch /\ relayAvail

\* !fallbackResult.text
FetchFailed(got) == Falsy(got.text)

\* The rule list the text of a fetched body states: the sheet's rules for
\* the style text, none for an empty body.
BodyRules(s, text) == IF text = "css" THEN sheets[s].rules ELSE <<>>

\* collectFromStylesheet after fetchStylesheetText returned got, lines 344-357.
\* Without a sheet for the parsed text collectRules(null) returns no text.
AfterFetch(s, got) ==
  /\ fetched' = [fetched EXCEPT ![s] = <<got>>]
  /\ IF FetchFailed(got)
     THEN /\ warnings' = Append(warnings, FailedWarning(s, got.error))
          /\ stack' = DropLast(stack)
     ELSE /\ warnings' = warnings
          /\ stack' = IF parseOk
                      THEN DropLast(stack) \o
                           <<SheetFrame(s, "catch"),
                             RulesFrame(s, ParsedRules(BodyRules(s, got.text),
                                                       sheets[s].href))>>
                      ELSE DropLast(stack)

\* The direct path: fetch(href, { credentials: 'include' })
DirectFetch(s) ==
  /\ FetchPending(s)
  /\ ~UseRelay
  /\ issued' = Append(issued, <<s, "direct">>)
  /\ AfterFetch(s, DirectResult(net[s]))
  /\ UNCHANGED <<envVars, pc, liveFreeze, sheetList, docIdx, visitedSheets, usedRules,
                 fontFaces, keyframes, relay, extractedCss, output, result, error, visits>>

\* resolve(v) called on a promise whose earlier calls gave resolutions
Resolve(r, v) == [r EXCEPT !.settled = TRUE, !.resolutions = Append(@, v)]

\* The promise executor: the timer is set and sendMessage called; sendMessage
\* may raise at once (the extension context is gone).
RelaySend(s) ==
  /\ FetchPending(s)
  /\ UseRelay
  /\ relay[s].timer = "none"
  /\ \E raises \in BOOLEAN :
       relay' = [relay EXCEPT ![s] =
                   IF raises
                   THEN [Resolve(@, ChannelErrorResponse) EXCEPT !.timer = "cleared"]
                   ELSE [@ EXCEPT !.timer = "armed", !.msg = "sent"]]
  /\ UNCHANGED <<envVars, travVars, pc, liveFreeze, sheetList, docIdx, extractedCss,
                 output, result, error, issued>>

\* The background's onMessage listener handles FETCH_CSS and calls sendResponse.
BackgroundFetch(s) ==
  /\ relay[s].msg = "sent"
  /\ relay' = [relay EXCEPT ![s].msg = "answered", ![s].reply = <<BackgroundResponse(net[s])>>]
  /\ issued' = Append(issued, <<s, "relay">>)
  /\ UNCHANGED <<envVars, travVars, pc, liveFreeze, sheetList, docIdx, extractedCss,
                 output, result, error>>

\* The message finds no listener or the port closes without an answer: the
\* callback will run with no result.
PortClosed(s) ==
  /\ relay[s].msg = "sent"
  /\ relay' = [relay EXCEPT ![s].msg = "closed"]
  /\ UNCHANGED <<envVars, travVars, pc, liveFreeze, sheetList, docIdx, extractedCss,
                 output, result, error, issued>>

\* A callback that resolves without looking at the settled flag
OnResponse_Unguarded(r) ==
  [Resolve(r, CallbackResponse(r.reply)) EXCEPT !.msg = "delivered", !.timer = "cleared"]

\* The callback of sendMessage, lines 220-231.
OnResponse(r) ==
  IF r.settled THEN [r EXCEPT !.msg = "delivered"]
  ELSE [Resolve(r, CallbackResponse(r.reply)) EXCEPT !.msg = "delivered", !.timer = "cleared"]

RelayCallback(s) ==
  /\ relay[s].msg \in {"answered", "closed"}
  /\ relay' = [relay EXCEPT ![s] = OnResponse(@)]
  /\ UNCHANGED <<envVars, travVars, pc, liveFreeze, sheetList, docIdx, extractedCss,
                 output, result, error, issued>>

\* A timer callback that resolves nothing
OnTimeout_Silent(r) == [r EXCEPT !.timer = "fired"]

\* The callback of setTimeout, lines 212-218.
OnTimeout(r) ==
  IF r.settled THEN [r EXCEPT !.timer = "fired"]
  ELSE [Resolve(r, TimeoutResponse) EXCEPT !.timer = "fired"]

\* 3000 ms have passed since the timer was set.
RelayTimeout(s) ==
  /\ relay[s].timer = "armed"
  /\ relay' = [relay EXCEPT ![s] = OnTimeout(@)]
  /\ UNCHANGED <<envVars, travVars, pc, liveFreeze, sheetList, docIdx, extractedCss,
                 output, result, error, issued>>

\* The promise is resolved: fetchStylesheetText returns and the catch block goes on.
RelayResume(s) ==
  /\ FetchPending(s)
  /\ UseRelay
  /\ relay[s].resolutions # <<>>
  /\ AfterFetch(s, RelayResult(relay[s].resolutions[1]))
  /\ UNCHANGED <<envVars, pc, liveFreeze, sheetList, docIdx, visitedSheets, usedRules,
                 fontFaces, keyframes, relay, extractedCss, output, result, error, visits,
                 issued>>

-----------------------------------------------------------------------------
(* The snapshot: clone, prune, inject, serialize *)

Without(els, Dropped(_)) == SelectSeq(els, LAMBDA e : ~Dropped(e))

\* base elements and the elements extensions inject, lines 376-380
PruneInjected(els) ==
  Without(els, LAMBDA e :
    \/ e.tag = "base"
    \/ e.tag \in {"plasmo-csui", "css-to-tailwind", "browser-mcp-container"}
    \/ e.ext)

\* lines 382-387
RemoveScripts(els) ==
  Without(els, LAMBDA e :
    \/ e.tag = "script"
    \/ e.tag = "link" /\ e.rel = "modulepreload"
    \/ e.tag = "link" /\ e.rel = "preload" /\ e.as = "script")

\* A removal of the style elements and style preloads only
RemoveStyles_KeepsLinks(els) ==
  Without(els, LAMBDA e :
    \/ e.tag = "style"
    \/ e.tag = "link" /\ e.rel = "preload" /\ e.as = "style")

\* lines 389-395
RemoveStyles(els) ==
  Without(els, LAMBDA e :
    \/ e.tag = "style"
    \/ e.tag = "link" /\ e.rel = "stylesheet"
    \/ e.tag = "link" /\ e.rel = "preload" /\ e.as = "style")

\* lines 397-403; head: cloneRoot.querySelector('head') found an element
InjectStyle(els, head, css) ==
  IF head /\ css # <<>> THEN Append(els, ExtractedEl(css)) ELSE els

\* A policy appended whether or not it was asked for
InjectCsp_Unasked(els, head, addCsp) ==
  IF head THEN Append(els, CspEl) ELSE els

\* lines 404-412
InjectCsp(els, head, addCsp) ==
  IF head /\ addCsp THEN Append(els, CspEl) ELSE els

\* The elements of document.documentElement.cloneNode(true)
CloneRoot == page \o (IF liveFreeze THEN <<FreezeEl>> ELSE <<>>)

Snapshot ==
  LET pruned == PruneInjected(CloneRoot)
      noScripts == IF options.removeScripts THEN RemoveScripts(pruned) ELSE pruned
      noStyles == IF options.removeOriginalStyles THEN RemoveStyles(noScripts) ELSE noScripts
  IN InjectCsp(InjectStyle(noStyles, hasHead, extractedCss), hasHead, options.addCsp)

\* Cleanup tasks that leave the freeze style where it is
RunCleanup_Skipped(live) == live

\* cleanupTasks.forEach((task) => task()): the one task is style.remove(),
\* after which the live document does not hold the freeze style.
RunCleanup(live) == FALSE

\* Lines 374-420: the clone is pruned, the collected text and the policy are
\* injected, the cleanup tasks run and the function returns.
Assemble ==
  /\ pc = "assemble"
  /\ output' = <<[html |-> [doctype |-> "<!DOCTYPE html>", elems |-> Snapshot],
                  warnings |-> warnings]>>
  /\ liveFreeze' = RunCleanup(liveFreeze)
  /\ pc' = "returned"
  /\ UNCHANGED <<envVars, travVars, sheetList, docIdx, relay, extractedCss, result,
                 error, issued>>

\* executeScript hands the function's value to cloneActiveTab, lines 425-429.
ScriptResult ==
  /\ pc = "returned"
  /\ result' = <<[html |-> output[1].html, warnings |-> output[1].warnings]>>
  /\ pc' = "done"
  /\ UNCHANGED <<envVars, travVars, liveFreeze, sheetList, docIdx, relay, extractedCss,
                 output, error, issued>>

\* executeScript yields no value for the frame.
NoScriptResult ==
  /\ pc = "returned"
  /\ error' = "Failed to serialize the page."
  /\ pc' = "failed"
  /\ UNCHANGED <<envVars, travVars, liveFreeze, sheetList, docIdx, relay, extractedCss,
                 output, result, issued>>

-----------------------------------------------------------------------------

Next ==
  \/ QueryTab
  \/ Freeze
  \/ StableFrames
  \/ DocLoop
  \/ StyleRuleStep
  \/ MediaRuleStep
  \/ SupportsRuleStep
  \/ KeyframesRuleStep
  \/ FontFaceRuleStep
  \/ ImportRuleStep
  \/ GroupRuleStep
  \/ OtherRuleStep
  \/ NestedThrow
  \/ ReturnToGroup
  \/ ReturnToSheet
  \/ CollectDone
  \/ \E s \in 1..NSheets : DirectFetch(s)
  \/ \E s \in 1..NSheets : RelaySend(s)
  \/ \E s \in 1..NSheets : BackgroundFetch(s)
  \/ \E s \in 1..NSheets : PortClosed(s)
  \/ \E s \in 1..NSheets : RelayCallback(s)
  \/ \E s \in 1..NSheets : RelayTimeout(s)
  \/ \E s \in 1..NSheets : RelayResume(s)
  \/ Assemble
  \/ ScriptResult
  \/ NoScriptResult

Spec == Init /\ [][Next]_vars

-----------------------------------------------------------------------------
(* The functions of the injected script, each applied to bounded inputs *)

\* The sequences over A of length up to n
Seqs(A, n) == UNION {[1..k -> A] : k \in 0..n}

\* Tokens of selector lists: a name, the separators, brackets, a quote, a backslash
SplitTokens == {"a", ",", " ", "(", ")", "'", "\\"}

\* Tokens of selectors: names with and without a node, the colon, names of
\* pseudo-classes and pseudo-elements, the characters of the class [\\w-]
SelectorTokens == {"a", "b", ":", " ", "hover", "before", "focus", "-", "visible", "w", "\\"}

\* Pieces of style text: url references as the style grammar writes them
\* (relative, quoted, data:, fragment), the two shapes the expression of
\* rewriteCssUrls matches, and other text.
UrlPieces ==
  { <<"url", "(", "x", ")">>,
    <<"url", "(", "\"", "x", "\"", ")">>,
    <<"url", "(", "data:", "x", ")">>,
    <<"url", "(", "#", "x", ")">>,
    <<"url", "\\", "\\", "x", "\\", "\\">>,
    <<"url", "\\", "\\", "s", "'", "x", "'", "\\", "s", "\\">>,
    <<"a">>,
    <<" ">> }

RECURSIVE PieceTexts(_)
PieceTexts(n) ==
  IF n = 0 THEN {<<>>}
  ELSE PieceTexts(n - 1) \cup {txt \o p : txt \in PieceTexts(n - 1), p \in UrlPieces}

\* The calls of function fn that are tried
CallsOf(fn) ==
  CASE fn = "splitSelectors" ->
         {[fn |-> fn, arg |-> s, base |-> 0] : s \in Seqs(SplitTokens, MaxSplitLen)}
    [] fn \in {"normalizeSelector", "selectorMatches"} ->
         {[fn |-> fn, arg |-> s, base |-> 0] : s \in Seqs(SelectorTokens, MaxSelLen)}
    [] fn = "rewriteCssUrls" ->
         {[fn |-> fn, arg |-> s, base |-> b] : s \in PieceTexts(MaxPieces), b \in {0, 1}}

\* A page before any capture; one function is about to be applied.
FnInit ==
  /\ InitProgram
  /\ options = Options(FALSE, FALSE, FALSE, FALSE)
  /\ tabPresent = TRUE
  /\ hasHead = TRUE
  /\ page = <<>>
  /\ relayAvail = TRUE
  /\ parseOk = TRUE
  /\ docSheets = [k \in 1..NSheets |-> k]
  /\ sheets = WithFreeze([s \in 1..NSheets |-> Sheet(s, TRUE, PlainList)])
  /\ net = [s \in AllSheets |-> "css"]
  /\ \E fn \in {"splitSelectors", "normalizeSelector", "selectorMatches", "rewriteCssUrls"} :
       call \in CallsOf(fn)
  /\ ret = NoRet

\* Everything but ret
fnFrame ==
  <<options, tabPresent, hasHead, page, sheets, docSheets, net, relayAvail, parseOk,
    pc, liveFreeze, sheetList, docIdx, stack, visitedSheets, usedRules, fontFaces,
    keyframes, warnings, relay, fetched, extractedCss, output, result, error, visits,
    issued, call, popupVars>>

Applies(fn, step) == call.fn = fn /\ ret.step = step

CallSplitSelectors ==
  /\ Applies("splitSelectors", 0)
  /\ ret' = [ret EXCEPT !.step = 1, !.clauses = splitSelectors(call.arg)]
  /\ UNCHANGED fnFrame

CallNormalizeSelector ==
  /\ Applies("normalizeSelector", 0)
  /\ ret' = [ret EXCEPT !.step = 1, !.text = normalizeSelector(call.arg)]
  /\ UNCHANGED fnFrame

\* normalizeSelector applied to what it returned
CallNormalizeSelectorAgain ==
  /\ Applies("normalizeSelector", 1)
  /\ ret' = [ret EXCEPT !.step = 2, !.again = normalizeSelector(ret.text)]
  /\ UNCHANGED fnFrame

CallSelectorMatches ==
  /\ Applies("selectorMatches", 0)
  /\ ret' = [ret EXCEPT !.step = 1, !.flag = selectorMatches(call.arg)]
  /\ UNCHANGED fnFrame

CallRewriteCssUrls ==
  /\ Applies("rewriteCssUrls", 0)
  /\ ret' = [ret EXCEPT !.step = 1, !.text = rewriteCssUrls(call.arg, call.base)]
  /\ UNCHANGED fnFrame

\* rewriteCssUrls applied, with the same base, to what it returned
CallRewriteCssUrlsAgain ==
  /\ Applies("rewriteCssUrls", 1)
  /\ ret' = [ret EXCEPT !.step = 2, !.again = rewriteCssUrls(ret.text, call.base)]
  /\ UNCHANGED fnFrame

FnNext ==
  \/ CallSplitSelectors
  \/ CallNormalizeSelector
  \/ CallNormalizeSelectorAgain
  \/ CallSelectorMatches
  \/ CallRewriteCssUrls
  \/ CallRewriteCssUrlsAgain

FnSpec == FnInit /\ [][FnNext]_vars

-----------------------------------------------------------------------------
(* The popup: App *)

\* The three buttons of the popup
Triggers == {"download", "copy", "preview"}

\* The pages a click can meet and the options as the checkboxes stand: with
\* or without an active tab, on either fetch path, pages whose first sheet
\* differs in what blocks it and whose other sheets can be read.
CapturedPages ==
  {[options |-> Options(TRUE, TRUE, uhf, FALSE), tabPresent |-> tp, relayAvail |-> TRUE,
    parseOk |-> TRUE,
    choice |-> [s \in 1..NSheets |->
                  IF s = 1 THEN c
                  ELSE [sheet |-> Sheet(s, TRUE, PlainList), net |-> "css"]]] :
     uhf \in BOOLEAN, tp \in BOOLEAN, c \in SimpleChoices(1)}

\* The popup as useState leaves it at its first render, lines 17-23; no
\* capture was asked for and cloneActiveTab is not running.
PopupInit ==
  /\ isWorking = FALSE
  /\ status = STATUS_IDLE
  /\ cloneWarnings = <<>>
  /\ screen = Rendered(FALSE, <<>>)
  /\ running = 0
  /\ trigger = ""
  /\ finishing = {}
  /\ pc = "idle"
  /\ FreshCapture
  /\ options = Options(TRUE, TRUE, TRUE, FALSE)
  /\ tabPresent = TRUE
  /\ hasHead = TRUE
  /\ page = <<>>
  /\ relayAvail = TRUE
  /\ parseOk = TRUE
  /\ docSheets = [k \in 1..NSheets |-> k]
  /\ sheets = WithFreeze([s \in 1..NSheets |-> Sheet(s, TRUE, PlainList)])
  /\ net = [s \in AllSheets |-> "css"]
  /\ call = NoCall
  /\ ret = NoRet

\* No call of cloneActiveTab holds locals: a call begins with these values
\* (the next state is a FreshCapture but for result and error) and leaves
\* nothing behind when it has settled.
NoLocals ==
  /\ liveFreeze' = FALSE
  /\ sheetList' = <<>>
  /\ docIdx' = 1
  /\ stack' = <<>>
  /\ visitedSheets' = {}
  /\ usedRules' = <<>>
  /\ fontFaces' = <<>>
  /\ keyframes' = <<>>
  /\ warnings' = <<>>
  /\ relay' = [s \in AllSheets |-> IdleRelay]
  /\ fetched' = [s \in AllSheets |-> <<>>]
  /\ extractedCss' = <<>>
  /\ output' = <<>>
  /\ visits' = [s \in AllSheets |-> 0]
  /\ issued' = <<>>

\* React renders the state set by the handler of a click before the browser
\* delivers the next event.
FlushSync(working, shownWarnings, old) == Rendered(working, shownWarnings)

\* A click on a button the browser has not disabled: handleDownload, handleCopy
\* or handlePreview calls runClone, which runs to its await of cloneActiveTab
\* (lines 25-36); cloneActiveTab starts on the page p the active tab shows.
Click(t, p) ==
  /\ ~screen.disabled
  /\ running < MaxCalls
  /\ isWorking' = TRUE
  /\ status' = STATUS_PREPARING
  /\ cloneWarnings' = <<>>
  /\ screen' = FlushSync(TRUE, <<>>, screen)
  /\ running' = running + 1
  /\ trigger' = t
  /\ finishing' = finishing
  /\ options' = p.options
  /\ tabPresent' = p.tabPresent
  /\ relayAvail' = p.relayAvail
  /\ parseOk' = p.parseOk
  /\ sheets' = WithFreeze([s \in 1..NSheets |-> p.choice[s].sheet])
  /\ net' = [s \in AllSheets |-> IF s = FreezeSheet THEN "css" ELSE p.choice[s].net]
  /\ pc' = "start"
  /\ result' = <<>>
  /\ error' = NULL
  /\ NoLocals
  /\ UNCHANGED <<hasHead, page, docSheets, call, ret>>

\* What the handler t sets and awaits after runClone returned a snapshot,
\* lines 53-57, 63-66, 72-79.
StatusAfter(t) == IF t = "download" THEN "Building download..." ELSE STATUS_READY
AwaitsAfter(t) == IF t \in {"download", "copy"} THEN {t} ELSE {}

\* A finally block that leaves the flag as it is
EndWorking_Kept(working) == working

\* finally { setIsWorking(false) }
EndWorking(working) == FALSE

\* cloneActiveTab settled: runClone goes on after its await (lines 38-48) and
\* the handler that called it after its own.
RunCloneSettles ==
  /\ running > 0
  /\ pc \in {"done", "failed", "threw"}
  /\ IF pc = "done"
     THEN /\ cloneWarnings' = result[1].warnings
          /\ status' = StatusAfter(trigger)
          /\ finishing' = finishing \cup AwaitsAfter(trigger)
     ELSE /\ cloneWarnings' = cloneWarnings
          /\ status' = error
          /\ finishing' = finishing
  /\ isWorking' = EndWorking(isWorking)
  /\ running' = running - 1
  /\ trigger' = ""
  /\ pc' = "idle"
  /\ NoLocals
  /\ UNCHANGED <<options, tabPresent, hasHead, page, sheets, docSheets, net, relayAvail,
                 parseOk, call, ret, screen, result, error>>

\* downloadHtml or clipboard.writeText returned to the handler t, lines 58, 67.
HandlerFinishes(t) ==
  /\ t \in finishing
  /\ finishing' = finishing \ {t}
  /\ status' = IF t = "download" THEN "Download ready. Check your downloads folder."
               ELSE "Snapshot copied to clipboard."
  /\ UNCHANGED <<options, tabPresent, hasHead, page, sheets, docSheets, net, relayAvail,
                 parseOk, call, ret, isWorking, cloneWarnings, screen, running, trigger,
                 travVars, pc, liveFreeze, sheetList, docIdx, relay, extractedCss, output,
                 result, error, issued>>

\* React renders the state that was set outside the handler of an event.
Render ==
  /\ screen # Rendered(isWorking, cloneWarnings)
  /\ screen' = Rendered(isWorking, cloneWarnings)
  /\ UNCHANGED <<options, tabPresent, hasHead, page, sheets, docSheets, net, relayAvail,
                 parseOk, call, ret, isWorking, status, cloneWarnings, running, trigger,
                 finishing, travVars, pc, liveFreeze, sheetList, docIdx, relay,
                 extractedCss, output, result, error, issued>>

\* The steps that need no user: the running capture, the background, the
\* continuations of the popup and its renders.
PopupSteps ==
  \/ QueryTab
  \/ Freeze
  \/ StableFrames
  \/ DocLoop
  \/ StyleRuleStep
  \/ ReturnToSheet
  \/ CollectDone
  \/ \E s \in 1..NSheets : DirectFetch(s)
  \/ \E s \in 1..NSheets : RelaySend(s)
  \/ \E s \in 1..NSheets : BackgroundFetch(s)
  \/ \E s \in 1..NSheets : PortClosed(s)
  \/ \E s \in 1..NSheets : RelayCallback(s)
  \/ \E s \in 1..NSheets : RelayTimeout(s)
  \/ \E s \in 1..NSheets : RelayResume(s)
  \/ Assemble
  \/ ScriptResult
  \/ NoScriptResult
  \/ RunCloneSettles
  \/ \E t \in Triggers : HandlerFinishes(t)
  \/ Render

PopupNext ==
  \/ \E t \in Triggers, p \in CapturedPages : Click(t, p)
  \/ PopupSteps

\* The event loops of the popup, the page and the background run what is
\* ready; nothing obliges the user to click.
PopupSpec == PopupInit /\ [][PopupNext]_vars /\ WF_vars(PopupSteps)

\* The event loop runs every task that is ready: a pending step is taken.
LiveSpec == Spec /\ WF_vars(Next)

-----------------------------------------------------------------------------
(* Properties *)

\* The injected function has returned its value.
Returned == pc \in {"returned", "done"}

\* cloneActiveTab has returned or thrown.
Ended == pc \in {"done", "failed", "threw"}

PageSheets == 1..NSheets

\* Sheet s reaches sheet u through import rules of sheets whose rules can be read.
ImportsOf(s) ==
  IF sheets[s].access
  THEN {sheets[s].rules[k].target :
          k \in {j \in 1..Len(sheets[s].rules) : sheets[s].rules[j].type = "import"}} \ {0}
  ELSE {}

\* C1: during one capture collectFromStylesheet goes past its visited guard at
\* most once per sheet object, whatever number of document entries and import
\* paths reach the sheet; no sheet has two pending calls at once, so a sheet
\* that imports itself, directly or through a cycle, is not entered again:
\* every pending call is on a sheet already in the visited set, so the depth
\* of the recursion never exceeds the number of sheets.
C1_VisitedOnce ==
  /\ \A s \in AllSheets : visits[s] <= 1
  /\ \A j, k \in 1..Len(stack) :
       (j # k /\ stack[j].kind = "sheet" /\ stack[k].kind = "sheet")
         => stack[j].sheet # stack[k].sheet
  /\ \A j \in 1..Len(stack) :
       stack[j].kind = "sheet" => stack[j].sheet \in visitedSheets

\* A sheet on an import cycle, also listed by the document or also imported
\* by another sheet, was processed and the capture ended.
C1_Witness ==
  /\ pc = "done"
  /\ \E s \in PageSheets :
       /\ visits[s] = 1
       /\ s \in ImportsOf(s) \/ \E u \in ImportsOf(s) \ {s} : s \in ImportsOf(u)

WarningsOf(s) == SelectSeq(warnings, LAMBDA w : w.href = sheets[s].href)

\* Sheet s contributed a text to the collected text.
Contributed(s) ==
  \/ \E k \in 1..Len(usedRules) : usedRules[k].src = s
  \/ \E k \in 1..Len(fontFaces) : fontFaces[k].src = s
  \/ \E k \in 1..Len(keyframes) : keyframes[k].src = s

\* The fetch of blocked sheet s returned a failure.
BlockedAndFetchFailed(s) ==
  /\ ~sheets[s].access
  /\ sheets[s].href # 0
  /\ fetched[s] # <<>>
  /\ fetched[s][1].text = NULL

\* C2: for a sheet with an address whose rules are denied and whose fallback
\* fetch fails, the injected function does not reject, the warnings of that
\* sheet are exactly the blocked notice followed by the fetch-failure notice,
\* the result carries them, and no text of the sheet is collected.
C2_BlockedFetchFailed ==
  /\ pc # "threw"
  /\ \A s \in PageSheets :
       BlockedAndFetchFailed(s) =>
         /\ WarningsOf(s) = <<BlockedWarning(s), FailedWarning(s, fetched[s][1].error)>>
         /\ ~Contributed(s)
         /\ pc = "done" => result[1].warnings = warnings

C2_Witness ==
  /\ pc = "done"
  /\ \E s \in PageSheets : BlockedAndFetchFailed(s) /\ UseRelay
  /\ Len(usedRules) > 0

\* C3: the promise of a relay call is resolved at most once, and exactly once
\* when settled; once the timer has fired the promise holds the timeout
\* failure, and still does after the response arrived; when the response came
\* first the timer is cleared, and the promise holds what the callback gave.
C3_ResolvesOnce ==
  \A s \in PageSheets :
    /\ Len(relay[s].resolutions) <= 1
    /\ relay[s].settled <=> Len(relay[s].resolutions) = 1
    /\ relay[s].timer = "fired" => relay[s].resolutions = <<TimeoutResponse>>
    /\ relay[s].timer = "cleared" =>
         /\ relay[s].resolutions # <<>>
         /\ relay[s].resolutions[1] # TimeoutResponse
    /\ (relay[s].timer = "fired" /\ fetched[s] # <<>>) =>
         fetched[s][1] = [text |-> NULL, error |-> "Background fetch timeout"]

\* The timer fired first and the background's answer was delivered after it.
C3_Witness ==
  \E s \in PageSheets :
    /\ relay[s].timer = "fired"
    /\ relay[s].msg = "delivered"
    /\ relay[s].reply # <<>>
    /\ fetched[s] # <<>>

\* A rule of the sheet's own list was kept: some collected text comes from it.
Kept(s, k) == \E j \in 1..Len(usedRules) : usedRules[j].src = s /\ usedRules[j].idx = k

\* The sheet's rules were read from the live sheet, to the end.
ReadLive(s) == s \in visitedSheets /\ sheets[s].access /\ AllReadable(sheets[s].rules)

\* C4: once the injected function returned, a plain style rule of a sheet
\* whose rules were read is among the collected texts if and only if the
\* matcher accepts at least one clause of its selector list.
C4_KeptIffSomeClause ==
  Returned =>
    \A s \in AllSheets :
      ReadLive(s) =>
        \A k \in 1..Len(sheets[s].rules) :
          sheets[s].rules[k].type = "style" =>
            (Kept(s, k) <=>
               \E c \in 1..Len(splitSelectors(sheets[s].rules[k].sel)) :
                 selectorMatches(splitSelectors(sheets[s].rules[k].sel)[c]))

\* A rule whose first clause does not match and whose second does was kept,
\* and a rule with two clauses none of which matches was dropped.
C4_Witness ==
  /\ Returned
  /\ \E s \in PageSheets :
       /\ ReadLive(s)
       /\ \E k \in 1..Len(sheets[s].rules) :
            /\ sheets[s].rules[k].sel = <<"b", ",", " ", "a">>
            /\ Kept(s, k)
       /\ \E k \in 1..Len(sheets[s].rules) :
            /\ sheets[s].rules[k].type = "style"
            /\ Len(splitSelectors(sheets[s].rules[k].sel)) = 2
            /\ ~Kept(s, k)

-----------------------------------------------------------------------------
(* Failures of single sheets *)

FatalMessages == {"No active tab detected.", "Failed to serialize the page."}

\* The try block of collectFromStylesheet(s) raised: reading the sheet's
\* rules, or the rules of one of its group rules, was denied.
Failed(s) == s \in visitedSheets /\ ~(sheets[s].access /\ AllReadable(sheets[s].rules))

\* Every sheet of the document was handed to collectFromStylesheet.
TraversalWentOn ==
  options.removeOriginalStyles => \A k \in 1..Len(sheetList) : sheetList[k] \in visitedSheets

\* C5 as stated: cloneActiveTab fails only with one of the two fatal messages,
\* the injected function never rejects, and every sheet whose processing
\* failed has a warning in the returned result.
C5_EveryFailureWarned ==
  /\ pc # "threw"
  /\ pc = "failed" => error \in FatalMessages
  /\ Returned =>
       /\ TraversalWentOn
       /\ \A s \in AllSheets : Failed(s) => WarningsOf(s) # <<>>

\* C5, amended: cloneActiveTab fails only without an active tab or without a
\* serialization result; the failure of a sheet that has an origin address
\* is recorded (the blocked notice first, and the fetch-failure notice with
\* its reason when the fetch gave no text); a sheet without an origin address
\* whose rules cannot be read is skipped without a warning; in each case the
\* traversal goes on over the remaining sheets and the capture returns.
C5_FailuresWithAddressWarned ==
  /\ pc # "threw"
  /\ pc = "failed" =>
       \/ error = "No active tab detected." /\ ~tabPresent
       \/ error = "Failed to serialize the page." /\ output # <<>>
  /\ Returned =>
       /\ TraversalWentOn
       /\ \A s \in AllSheets :
            Failed(s) =>
              IF sheets[s].href = 0 THEN fetched[s] = <<>>
              ELSE /\ WarningsOf(s) # <<>>
                   /\ WarningsOf(s)[1] = BlockedWarning(s)
                   /\ fetched[s] # <<>>
                   /\ FetchFailed(fetched[s][1]) =>
                        Last(WarningsOf(s)) = FailedWarning(s, fetched[s][1].error)
       /\ \A k \in 1..Len(warnings) :
            \E s \in AllSheets :
              Failed(s) /\ sheets[s].href # 0 /\ warnings[k].href = sheets[s].href

\* A capture ended with its result although the fetch of one blocked sheet
\* failed and another blocked sheet had no address; the sheet after them was
\* processed.
C5_Witness ==
  /\ pc = "done"
  /\ FreezeSheet \in visitedSheets
  /\ \E s, u \in PageSheets :
       /\ Failed(s) /\ sheets[s].href # 0
       /\ fetched[s] # <<>> /\ FetchFailed(fetched[s][1])
       /\ Failed(u) /\ sheets[u].href = 0

-----------------------------------------------------------------------------
(* Order of the collected text *)

\* String.prototype.split('\n') of a text that is not empty
RECURSIVE Lines(_)
Lines(text) ==
  IF \A k \in 1..Len(text) : text[k] # "\n" THEN <<text>>
  ELSE LET n == CHOOSE k \in 1..Len(text) :
                  text[k] = "\n" /\ \A j \in 1..(k - 1) : text[j] # "\n"
       IN <<SubSeq(text, 1, n - 1)>> \o Lines(SubSeq(text, n + 1, Len(text)))

\* The rules of the sheets in depth-first order, as <<sheet, index>>: the
\* rules of s from index k on, a sheet an import rule names in the place of
\* the import rule; seen holds the sheets entered before.  The import rules
\* of a sheet whose rules are denied are not followed.
RECURSIVE DfsRules(_, _, _)
DfsRules(s, k, seen) ==
  IF k > Len(sheets[s].rules) THEN [order |-> <<>>, seen |-> seen]
  ELSE LET rule == sheets[s].rules[k]
           follows == /\ rule.type = "import" /\ rule.target # 0
                      /\ sheets[s].access /\ rule.target \notin seen
           inner == IF follows
                    THEN DfsRules(rule.target, 1, seen \cup {rule.target})
                    ELSE [order |-> <<>>, seen |-> seen]
           rest == DfsRules(s, k + 1, inner.seen)
       IN [order |-> (IF rule.type = "import" THEN inner.order ELSE << <<s, k>> >>)
                       \o rest.order,
           seen |-> rest.seen]

\* The sheets of list from position k on, in document order
RECURSIVE DfsDocument(_, _, _)
DfsDocument(list, k, seen) ==
  IF k > Len(list) THEN <<>>
  ELSE IF list[k] \in seen THEN DfsDocument(list, k + 1, seen)
  ELSE LET in == DfsRules(list[k], 1, seen \cup {list[k]})
       IN in.order \o DfsDocument(list, k + 1, in.seen)

\* The position of a rule in the depth-first order, 0 when it has none
DfsPosition(s, k) ==
  LET order == DfsDocument(sheetList, 1, {})
  IN IF \E n \in 1..Len(order) : order[n] = <<s, k>>
     THEN CHOOSE n \in 1..Len(order) : order[n] = <<s, k>>
     ELSE 0

\* C6: the collected text has one line per collected entry: the font-face
\* texts, then the keyframes texts, then the matched rule texts; and the
\* matched rule texts, at any moment of the traversal, stand in depth-first
\* order: document order of the sheets, source order of the rules of a sheet,
\* the rules of an imported sheet in the place of the import rule.
C6_CompositionOrder ==
  /\ \A j, k \in 1..Len(usedRules) :
       j < k =>
         /\ DfsPosition(usedRules[j].src, usedRules[j].idx) > 0
         /\ DfsPosition(usedRules[j].src, usedRules[j].idx)
              < DfsPosition(usedRules[k].src, usedRules[k].idx)
  /\ (pc \in {"assemble", "returned", "done"} /\ options.removeOriginalStyles) =>
       LET entries == Texts(fontFaces) \o Texts(keyframes) \o Texts(usedRules)
       IN IF entries = <<>> THEN extractedCss = <<>>
          ELSE Lines(extractedCss) = entries

\* Font-face, keyframes and rule texts were collected, among them a rule of
\* an imported sheet ahead of a rule of the sheet that imports it.
C6_Witness ==
  /\ Returned
  /\ fontFaces # <<>>
  /\ keyframes # <<>>
  /\ \E j, k \in 1..Len(usedRules) :
       /\ j < k
       /\ usedRules[j].src # usedRules[k].src
       /\ usedRules[j].src \in ImportsOf(usedRules[k].src)
       /\ usedRules[k].src \in PageSheets

-----------------------------------------------------------------------------
(* Media groups *)

\* The texts collectRules(rules) returns, computed in one step over the tree
\* of rules: which rules of the list survive the filtering, and as what text.
RECURSIVE Survivors(_)
Survivors(rules) ==
  IF rules = <<>> THEN <<>>
  ELSE LET r == Head(rules)
           inner == Survivors(r.rules)
           own ==
             IF r.type = "style"
             THEN IF \E c \in 1..Len(splitSelectors(r.sel)) :
                       selectorMatches(splitSelectors(r.sel)[c])
                  THEN <<r.text>> ELSE <<>>
             ELSE IF r.type = "media"
             THEN IF inner # <<>>
                  THEN << <<"@media ", r.cond, "{">> \o Flatten(inner) \o <<"}">> >>
                  ELSE <<>>
             ELSE IF r.type = "supports"
             THEN IF CssSupports(r.cond) /\ inner # <<>>
                  THEN << <<"@supports ", r.cond, "{">> \o Flatten(inner) \o <<"}">> >>
                  ELSE <<>>
             ELSE IF r.type = "group"
             THEN IF inner # <<>> THEN <<r.text>> ELSE <<>>
             ELSE <<>>
       IN own \o Survivors(Tail(rules))

\* The collected text that comes from rule k of sheet s
KeptText(s, k) ==
  usedRules[CHOOSE j \in 1..Len(usedRules) :
              usedRules[j].src = s /\ usedRules[j].idx = k].text

MediaRulesOf(s) == {k \in 1..Len(sheets[s].rules) : sheets[s].rules[k].type = "media"}

\* C7 as stated: a media rule is kept only if a child survived the filtering
\* and its condition holds in the live document.
C7_KeptOnlyIfConditionHolds ==
  Returned =>
    \A s \in AllSheets :
      ReadLive(s) =>
        \A k \in MediaRulesOf(s) :
          Kept(s, k) =>
            /\ Survivors(sheets[s].rules[k].rules) # <<>>
            /\ sheets[s].rules[k].cond \in MediaConditionsTrueNow

\* C7, amended: a media rule is kept if and only if at least one child rule
\* survived the filtering, whether or not its condition holds in the live
\* document; when kept, its text is the surviving children wrapped in the
\* original condition, and a media rule none of whose children survived
\* contributes no text.
C7_KeptIffChildSurvived ==
  Returned =>
    \A s \in AllSheets :
      ReadLive(s) =>
        \A k \in MediaRulesOf(s) :
          LET rule == sheets[s].rules[k]
              inner == Survivors(rule.rules)
          IN /\ Kept(s, k) <=> inner # <<>>
             /\ Kept(s, k) =>
                  KeptText(s, k) = <<"@media ", rule.cond, "{">> \o Flatten(inner) \o <<"}">>

\* A media rule whose condition does not hold was kept with its one surviving
\* child, and a media rule whose condition holds was dropped with none.
C7_Witness ==
  /\ Returned
  /\ \E s \in PageSheets :
       /\ ReadLive(s)
       /\ \E k \in MediaRulesOf(s) :
            /\ sheets[s].rules[k].cond \notin MediaConditionsTrueNow
            /\ Kept(s, k)
            /\ Len(Survivors(sheets[s].rules[k].rules)) < Len(sheets[s].rules[k].rules)
       /\ \E k \in MediaRulesOf(s) :
            /\ sheets[s].rules[k].cond \in MediaConditionsTrueNow
            /\ ~Kept(s, k)

-----------------------------------------------------------------------------
(* The two fetch paths *)

\* fetchStylesheetText returned a text
Success(got) == got.error = NULL /\ got.text # NULL

\* C8 as stated: when the relay path resolved with the background handler's
\* answer, fetchStylesheetText classifies the outcome of the retrieval as the
\* direct path classifies the same outcome.
C8_SameClassification ==
  \A s \in PageSheets :
    (/\ fetched[s] # <<>>
     /\ UseRelay
     /\ relay[s].reply # <<>>
     /\ relay[s].resolutions = relay[s].reply)
      => (Success(fetched[s][1]) <=> Success(DirectResult(net[s])))

-----------------------------------------------------------------------------
(* The output document *)

OutputElems == output[1].html.elems

IsScript(e) == e.tag = "script"
\* A link element whose rel attribute has the stylesheet keyword
IsStylesheetLink(e) == e.tag = "link" /\ e.rel \in {"stylesheet", "alternate stylesheet"}
IsGenerated(e) == e.tag = "style" /\ e.mark = "data-pc-extracted"
IsCspMeta(e) == e.tag = "meta" /\ e.mark = "Content-Security-Policy"
DeniesScripts(e) == \E k \in 1..Len(e.text) : e.text[k] = "script-src 'none';"

Stripping == options.removeScripts /\ options.removeOriginalStyles

\* C9 as stated: with both options the output has no script element, no
\* stylesheet link of the page, and exactly one generated style element,
\* which holds the collected text.
C9_OneGeneratedStyle ==
  (Returned /\ Stripping) =>
    /\ SelectSeq(OutputElems, IsScript) = <<>>
    /\ SelectSeq(OutputElems, IsStylesheetLink) = <<>>
    /\ SelectSeq(OutputElems, IsGenerated) = <<ExtractedEl(extractedCss)>>

\* C9, amended: with both options the output has no script element, no link
\* element whose rel attribute is exactly "stylesheet" (a link with another
\* rel value, such as "alternate stylesheet", stays), and no style element
\* other than the generated one: exactly one generated style element, which
\* holds the collected text, when the document has a head and the collected
\* text is not empty, and none otherwise.
C9_OneGeneratedStyleInHead ==
  (Returned /\ Stripping) =>
    /\ SelectSeq(OutputElems, IsScript) = <<>>
    /\ SelectSeq(OutputElems, LAMBDA e : e.tag = "link" /\ e.rel = "stylesheet") = <<>>
    /\ SelectSeq(OutputElems, LAMBDA e : e.tag = "link" /\ e.rel = "alternate stylesheet")
         = SelectSeq(page, LAMBDA e : e.tag = "link" /\ e.rel = "alternate stylesheet")
    /\ SelectSeq(OutputElems, LAMBDA e : e.tag = "style")
         = IF hasHead /\ extractedCss # <<>>
           THEN <<ExtractedEl(extractedCss)>> ELSE <<>>

\* A capture with both options of a page that had a script and a stylesheet
\* link ended with the generated style element in its output.
C9_Witness ==
  /\ Returned /\ Stripping
  /\ \E k \in 1..Len(page) : IsScript(page[k])
  /\ \E k \in 1..Len(page) : page[k].tag = "link" /\ page[k].rel = "stylesheet"
  /\ \E k \in 1..Len(OutputElems) : IsGenerated(OutputElems[k])

\* C10 as stated: with addCsp the output has exactly one policy meta
\* element, in the head, and it denies scripts; without addCsp the
\* capture adds none.
C10_ExactlyOnePolicy ==
  Returned =>
    IF options.addCsp
    THEN /\ Len(SelectSeq(OutputElems, IsCspMeta)) = 1
         /\ \A k \in 1..Len(OutputElems) :
              IsCspMeta(OutputElems[k]) =>
                OutputElems[k].where = "head" /\ DeniesScripts(OutputElems[k])
    ELSE SelectSeq(OutputElems, IsCspMeta) = SelectSeq(page, IsCspMeta)

\* C10, amended: with addCsp and a head in the document the capture appends
\* exactly one policy meta element to the head, as its last child, and that
\* element denies scripts; the policy meta elements the page already had
\* stay, so the head can hold more than one; without a head, or without
\* addCsp, the capture adds none.
C10_OnePolicyAppended ==
  Returned =>
    /\ SelectSeq(OutputElems, IsCspMeta)
         = SelectSeq(page, IsCspMeta)
             \o (IF options.addCsp /\ hasHead THEN <<CspEl>> ELSE <<>>)
    /\ (options.addCsp /\ hasHead) =>
         /\ Last(OutputElems) = CspEl
         /\ CspEl.where = "head"
         /\ DeniesScripts(CspEl)

\* A capture with addCsp of a page that had a policy meta element of its own
\* ended with that element and the appended one in its output.
C10_Witness ==
  /\ Returned
  /\ options.addCsp
  /\ Len(SelectSeq(page, IsCspMeta)) = 1
  /\ Len(SelectSeq(OutputElems, IsCspMeta)) = 2

-----------------------------------------------------------------------------
(* The freeze style of the live document *)

\* The injected function is between injectFreezeStyles and its cleanup.
Frozen == pc \in {"frames", "collect", "assemble"}

-----------------------------------------------------------------------------
(* rewriteCssUrls on its own *)

\* A url reference of the style grammar starts at position i of the text.
IsUrlRef(s, i) == At(s, i) = "url" /\ At(s, i + 1) = "("

\* The first token of the address of the reference at i
RefStart(s, i) == IF At(s, i + 2) \in Quotes THEN At(s, i + 3) ELSE At(s, i + 2)

\* The references of the text whose address starts with one of the tokens
RefsStarting(s, starts) == {i \in 1..Len(s) : IsUrlRef(s, i) /\ RefStart(s, i) \in starts}

\* C12 as stated: with a base address, what rewriteCssUrls returns has no
\* relative url reference left (each reference is resolved, or is a data:,
\* blob:, about: or fragment reference), it has the data: and fragment
\* references of its argument, and rewriteCssUrls applied to it with the
\* same base returns it unchanged.
C12_RewritesRelativeUrls ==
  (call.fn = "rewriteCssUrls" /\ call.base # 0) =>
    /\ ret.step >= 1 =>
         /\ \A i \in 1..Len(ret.text) :
              IsUrlRef(ret.text, i) =>
                RefStart(ret.text, i) \in {"resolved:", "data:", "blob:", "about:", "#"}
         /\ Cardinality(RefsStarting(ret.text, {"data:", "#"}))
              = Cardinality(RefsStarting(call.arg, {"data:", "#"}))
    /\ ret.step = 2 => ret.again = ret.text

-----------------------------------------------------------------------------
(* normalizeSelector and splitSelectors on their own *)

\* C13 as stated: normalizeSelector applied to what it returned returns the
\* same selector.
C13_NormalizeIdempotent ==
  (call.fn = "normalizeSelector" /\ ret.step = 2) => ret.again = ret.text

\* The number of commas of s, from position i on, that lie outside quotes and
\* outside bracket nesting as the style grammar reads s: inside a quoted
\* string a backslash escapes the character after it, and the string ends at
\* the next quote of its kind that is not escaped.
RECURSIVE BareCommas(_, _, _, _)
BareCommas(s, i, depth, quote) ==
  IF i > Len(s) THEN 0
  ELSE IF quote # ""
  THEN IF s[i] = "\\" THEN BareCommas(s, i + 2, depth, quote)
       ELSE BareCommas(s, i + 1, depth, IF s[i] = quote THEN "" ELSE quote)
  ELSE IF s[i] \in Quotes THEN BareCommas(s, i + 1, depth, s[i])
  ELSE IF s[i] \in {"(", "["} THEN BareCommas(s, i + 1, depth + 1, quote)
  ELSE IF s[i] \in {")", "]"}
  THEN BareCommas(s, i + 1, IF depth > 0 THEN depth - 1 ELSE 0, quote)
  ELSE (IF s[i] = "," /\ depth = 0 THEN 1 ELSE 0) + BareCommas(s, i + 1, depth, quote)

\* C14 as stated: splitSelectors returns for every text clauses that are
\* trimmed and not empty; no clause has a comma outside quotes and nesting;
\* and only such commas separate clauses, so there is at most one clause more
\* than the text has of them.
C14_SplitsAtBareCommas ==
  (call.fn = "splitSelectors" /\ ret.step = 1) =>
    /\ \A k \in 1..Len(ret.clauses) :
         /\ ret.clauses[k] # <<>>
         /\ Head(ret.clauses[k]) # " "
         /\ Last(ret.clauses[k]) # " "
         /\ BareCommas(ret.clauses[k], 1, 0, "") = 0
    /\ Len(ret.clauses) <= BareCommas(call.arg, 1, 0, "") + 1

-----------------------------------------------------------------------------
(* selectorMatches on its own *)

\* C15 as stated: selectorMatches returns true for a clause exactly when the
\* query of the clause, or the query of its normalized form, finds a node.
C15_MatchesIfEitherQueryFinds ==
  (call.fn = "selectorMatches" /\ ret.step = 1) =>
    (ret.flag <=>
       \/ querySelector(call.arg) = "node"
       \/ querySelector(normalizeSelector(call.arg)) = "node")

-----------------------------------------------------------------------------
(* Keyframes and font-face rules *)

\* collectRules goes into the nested list of the rule.
Enters(rule) ==
  \/ rule.type \in {"media", "group"}
  \/ rule.type = "supports" /\ CssSupports(rule.cond)

\* The texts of the rules of the given type in rules and in the nested lists
\* collectRules goes into
RECURSIVE SpecialTexts(_, _)
SpecialTexts(rules, type) ==
  UNION {IF rules[k].type = type THEN {rules[k].text}
         ELSE IF Enters(rules[k]) THEN SpecialTexts(rules[k].rules, type)
         ELSE {} : k \in 1..Len(rules)}

\* The rule list of sheet s that was traversed to its end: the sheet's own, or
\* the one parsed from its fetched text; none if neither was.
TraversedRules(s) ==
  IF s \notin visitedSheets THEN <<>>
  ELSE IF ReadLive(s) THEN sheets[s].rules
  ELSE IF sheets[s].href # 0 /\ fetched[s] # <<>> /\ ~FetchFailed(fetched[s][1]) /\ parseOk
  THEN ParsedRules(BodyRules(s, fetched[s][1].text), sheets[s].href)
  ELSE <<>>

\* How many lines of the collected text are the given text
Occurrences(text) ==
  Cardinality({k \in 1..Len(Lines(extractedCss)) : Lines(extractedCss)[k] = text})

\* C16: once the injected function returned, the text of every keyframes
\* rule and of every font-face rule of a traversed rule list, at the top of
\* the list or nested in a group rule the traversal went into, is a line of
\* the collected text, exactly once however many rules have that text.
C16_SpecialRulesKeptOnce ==
  (Returned /\ options.removeOriginalStyles) =>
    \A s \in AllSheets :
      /\ \A text \in SpecialTexts(TraversedRules(s), "keyframes") :
           /\ Occurrences(text) = 1
           /\ Cardinality({k \in 1..Len(keyframes) : keyframes[k].text = text}) = 1
      /\ \A text \in SpecialTexts(TraversedRules(s), "fontface") :
           /\ Occurrences(text) = 1
           /\ Cardinality({k \in 1..Len(fontFaces) : fontFaces[k].text = text}) = 1

\* A keyframes text that a sheet has both at the top of its list and inside a
\* media rule none of whose style rules survived is one line of the
\* collected text.
C16_Witness ==
  /\ Returned
  /\ \E s \in PageSheets :
       /\ ReadLive(s)
       /\ \E j, k \in 1..Len(sheets[s].rules) :
            /\ sheets[s].rules[j].type = "keyframes"
            /\ sheets[s].rules[k].type = "media"
            /\ ~Kept(s, k)
            /\ sheets[s].rules[j].text \in SpecialTexts(sheets[s].rules[k].rules, "keyframes")
            /\ Occurrences(sheets[s].rules[j].text) = 1

-----------------------------------------------------------------------------
(* The path of a fetch *)

\* The retrievals issued for the address of sheet s, in order
IssuedFor(s) == SelectSeq(issued, LAMBDA r : r[1] = s)

\* The executor of the relay promise of sheet s has run.
RelayUsed(s) == relay[s].timer # "none"

\* C17: a fetchStylesheetText call takes the relay path exactly when
\* useHostFetch is set and the channel exists, and the direct path otherwise;
\* at most one retrieval is ever issued for its address, by the path the call
\* took, also once the call has returned a failure.
C17_OnePath ==
  \A s \in AllSheets :
    /\ Len(IssuedFor(s)) <= 1
    /\ RelayUsed(s) => (options.useHostFetch /\ relayAvail)
    /\ \A k \in 1..Len(IssuedFor(s)) :
         IssuedFor(s)[k][2] = IF options.useHostFetch /\ relayAvail THEN "relay" ELSE "direct"
    /\ fetched[s] # <<>> =>
         IF options.useHostFetch /\ relayAvail
         THEN RelayUsed(s)
         ELSE IssuedFor(s) = << <<s, "direct">> >> /\ relay[s] = IdleRelay

\* A capture ended in which a call that took the relay path returned the
\* failure the background reported, and no direct retrieval was issued.
C17_Witness ==
  /\ pc = "done"
  /\ \E s \in PageSheets :
       /\ fetched[s] # <<>>
       /\ FetchFailed(fetched[s][1])
       /\ fetched[s][1].error = "HTTP 404"
       /\ IssuedFor(s) = << <<s, "relay">> >>

-----------------------------------------------------------------------------
(* One sheet at a time *)

\* The pending calls of collectFromStylesheet that await fetchStylesheetText
FetchFrames == {k \in 1..Len(stack) : stack[k].kind = "sheet" /\ stack[k].phase = "fetch"}

\* The sheets whose retrieval is under way: the call awaits it, or the
\* background was asked and has not answered.
RetrievalsUnderWay ==
  {s \in AllSheets : \E k \in FetchFrames : stack[k].sheet = s}
    \cup {s \in AllSheets : relay[s].msg = "sent"}

\* The sheets whose relay promise is not resolved while its timer runs
PromisesPending == {s \in AllSheets : relay[s].timer = "armed" /\ ~relay[s].settled}

\* At most one call awaits its fetch, it is the innermost pending call, and
\* at most one relay promise is pending, that of this call.
OneCallFetching ==
  /\ Cardinality(FetchFrames) <= 1
  /\ FetchFrames \subseteq {Len(stack)}
  /\ Cardinality(PromisesPending) <= 1
  /\ \A s \in PromisesPending : FetchPending(s)

\* The loop over the document's sheets moves on only when nothing is pending.
SiblingAfterReturn == docIdx' # docIdx => stack = <<>>

\* A step marks at most one sheet visited, and that sheet's call is then the
\* innermost pending one or has already returned, its sheet unreadable and
\* without an address.
OneSheetMarked ==
  visitedSheets' # visitedSheets =>
    \E s \in AllSheets \ visitedSheets :
      /\ visitedSheets' = visitedSheets \cup {s}
      /\ \/ /\ stack' # <<>>
            /\ Last(stack').sheet = s
            /\ \A k \in 1..Len(stack') : stack'[k].sheet = s => k >= Len(stack') - 1
         \/ ~sheets[s].access /\ sheets[s].href = 0

\* C18 as stated: the traversal is sequential, and at no time is the
\* retrieval of more than one address under way.
C18_OneFetchOutstanding ==
  /\ OneCallFetching
  /\ Cardinality(RetrievalsUnderWay) <= 1

\* C18, amended: the traversal is sequential and depth-first: the loop takes
\* the next sheet only after the call for the previous one has returned with
\* everything it called, a step marks one sheet visited, the one whose call
\* starts, and at most one fetchStylesheetText call is pending at any time;
\* the background's retrieval for a call that has timed out can still be
\* under way while the next call is pending.
C18_Sequential ==
  /\ []OneCallFetching
  /\ [][SiblingAfterReturn]_vars
  /\ [][OneSheetMarked]_vars

\* The call for one sheet awaits its fetch while the background has not yet
\* answered the request of an earlier sheet, whose call timed out.
C18_Witness ==
  \E s, u \in PageSheets :
    /\ s # u
    /\ relay[s].timer = "fired"
    /\ relay[s].msg = "sent"
    /\ fetched[s] # <<>>
    /\ FetchPending(u)
    /\ relay[u].timer = "armed"

-----------------------------------------------------------------------------
(* A background that never answers *)

\* Captures over the relay path of pages whose sheets differ in what blocks them
HungInit ==
  /\ InitProgram
  /\ call = NoCall
  /\ ret = NoRet
  /\ InitRelay
  /\ options.useHostFetch
  /\ relayAvail

\* The steps of a capture whose FETCH_CSS messages are never answered: the
\* background takes no step, so the callback of sendMessage never runs.
HungNext ==
  \/ QueryTab
  \/ Freeze
  \/ StableFrames
  \/ DocLoop
  \/ StyleRuleStep
  \/ ReturnToSheet
  \/ CollectDone
  \/ \E s \in 1..NSheets : RelaySend(s)
  \/ \E s \in 1..NSheets : RelayTimeout(s)
  \/ \E s \in 1..NSheets : RelayResume(s)
  \/ Assemble
  \/ ScriptResult
  \/ NoScriptResult

\* The page's event loop runs every continuation that is ready, and a timer
\* that was set fires.
HungSpec == HungInit /\ [][HungNext]_vars /\ WF_vars(HungNext)

\* C19: with the relay path in use and a background that never answers, a
\* timer fires only for a blocked sheet that has an address, each such sheet
\* gets one resolution of its promise, and the capture ends: cloneActiveTab
\* returns or throws.
C19_EndsWithoutAnswers ==
  /\ [](\A s \in AllSheets :
          relay[s].timer = "fired" =>
            /\ ~sheets[s].access
            /\ sheets[s].href # 0
            /\ relay[s].resolutions = <<TimeoutResponse>>)
  /\ <>Ended

\* A capture returned its result after the timers of two blocked sheets fired.
C19_Witness ==
  /\ pc = "done"
  /\ \A s \in PageSheets : relay[s].timer = "fired" /\ relay[s].msg = "sent"

\* The call of fetchStylesheetText for sheet s was made.
FetchCalled(s) ==
  \/ FetchPending(s)
  \/ fetched[s] # <<>>
  \/ RelayUsed(s)
  \/ IssuedFor(s) # <<>>

\* The places of warnings that hold w
PlacesOf(w) == {k \in 1..Len(warnings) : warnings[k] = w}

\* A sheet without an address has no warning and no fetch call.
NoAddressSilent ==
  \A s \in AllSheets :
    sheets[s].href = 0 => WarningsOf(s) = <<>> /\ ~FetchCalled(s)

\* The notices of a sheet whose fetch was called: the blocked notice once, the
\* last warning while the call is pending, and after a failed fetch the
\* failure notice in the next place.
BlockedThenFailed ==
  \A s \in AllSheets :
    /\ FetchCalled(s) => Cardinality(PlacesOf(BlockedWarning(s))) = 1
    /\ FetchPending(s) => Last(warnings) = BlockedWarning(s)
    /\ fetched[s] # <<>> =>
         IF FetchFailed(fetched[s][1])
         THEN \E k \in 1..(Len(warnings) - 1) :
                /\ warnings[k] = BlockedWarning(s)
                /\ warnings[k + 1] = FailedWarning(s, fetched[s][1].error)
                /\ WarningsOf(s) = <<warnings[k], warnings[k + 1]>>
         ELSE WarningsOf(s) = <<BlockedWarning(s)>>

\* The blocked notice of one sheet stands before that of another only when
\* the fetch of the first had returned before the second was reached.
EarlierSourceFirst ==
  \A s, u \in AllSheets :
    \A k \in PlacesOf(BlockedWarning(s)), l \in PlacesOf(BlockedWarning(u)) :
      k < l => fetched[s] # <<>>

\* A step that changes warnings appends one notice for the sheet the
\* traversal is at: the blocked notice in the step that calls the fetch of a
\* sheet not fetched before, or the failure notice in the step that takes the
\* failed outcome of the pending call.
WarningStep ==
  warnings' # warnings =>
    \E s \in AllSheets :
      /\ sheets[s].href # 0
      /\ \/ /\ warnings' = Append(warnings, BlockedWarning(s))
            /\ ~FetchCalled(s)
            /\ stack' # <<>>
            /\ Last(stack') = SheetFrame(s, "fetch")
         \/ /\ FetchPending(s)
            /\ fetched'[s] # <<>>
            /\ FetchFailed(fetched'[s][1])
            /\ warnings' = Append(warnings, FailedWarning(s, fetched'[s][1].error))

OpaqueRulesOf(s) ==
  {k \in 1..Len(sheets[s].rules) :
     Enters(sheets[s].rules[k]) /\ ~sheets[s].rules[k].readable}

\* The sheet's own rule list was read and holds a rule whose nested list is
\* not readable.
HasOpaqueRule(s) ==
  s \in visitedSheets /\ sheets[s].access /\ OpaqueRulesOf(s) # {}

\* The whole text of every such rule is among the collected texts.
OpaqueTextKept(s) ==
  \A k \in OpaqueRulesOf(s) : Kept(s, k) /\ KeptText(s, k) = sheets[s].rules[k].text

\* The style rules before such a rule whose selector matched are contributed.
MatchedBeforeKept(s) ==
  \A k \in OpaqueRulesOf(s) :
    \A j \in 1..(k - 1) :
      /\ sheets[s].rules[j].type = "style"
      /\ \E c \in 1..Len(splitSelectors(sheets[s].rules[j].sel)) :
           selectorMatches(splitSelectors(sheets[s].rules[j].sel)[c])
      => Kept(s, j)

\* The sheet did not go the way of a sheet whose rules are denied.
NotHandledAsBlocked(s) ==
  /\ BlockedWarning(s) \notin {warnings[k] : k \in 1..Len(warnings)}
  /\ ~FetchCalled(s)

\* C21: once the injected function returned, for a sheet whose own list was
\* read and holds a group rule with an unreadable nested list, the whole text
\* of that rule is collected, the matched rules before it are contributed,
\* and the sheet has no blocked notice and no fallback fetch.
C21_OpaqueGroupKept ==
  Returned =>
    \A s \in AllSheets :
      HasOpaqueRule(s) =>
        OpaqueTextKept(s) /\ MatchedBeforeKept(s) /\ NotHandledAsBlocked(s)

\* Tokens that are part of a name of the style grammar
IdentTokens == {"a", "b", "hover", "before", "focus", "visible", "w", "-"}

\* The length of the name that starts at position i of s
RECURSIVE IdentRun(_, _)
IdentRun(s, i) == IF At(s, i) \in IdentTokens THEN 1 + IdentRun(s, i + 1) ELSE 0

\* The pseudo-classes of the list of normalizeSelector
ListedPseudoClasses == {StatePseudos[k] : k \in 1..Len(StatePseudos)}

\* From position i on, s is a chain of pseudos normalizeSelector is to remove:
\* two colons and any name, or one colon and a name of the list.
RECURSIVE RemovableChain(_, _)
RemovableChain(s, i) ==
  IF i > Len(s) THEN TRUE
  ELSE LET j == IF HasAt(s, i, <<":", ":">>) THEN i + 2 ELSE i + 1
           n == IdentRun(s, j)
       IN /\ At(s, i) = ":"
          /\ n > 0
          /\ \E k \in j..(j + n - 1) : s[k] # "-"
          /\ j = i + 2 \/ SubSeq(s, j, j + n - 1) \in ListedPseudoClasses
          /\ RemovableChain(s, j + n)

\* The selector is a type name, or nothing, followed by at least one pseudo,
\* each of them one that normalizeSelector is to remove.
OnlyRemovablePseudos(s) ==
  /\ s # <<>>
  /\ IF Head(s) \in {"a", "b"}
     THEN Len(s) > 1 /\ RemovableChain(s, 2)
     ELSE RemovableChain(s, 1)

\* What is left of such a selector when its pseudos are removed in full
WithoutPseudos(s) == IF Head(s) \in {"a", "b"} THEN <<Head(s)>> ELSE <<>>

\* C22: normalizeSelector applied to a type name followed by listed
\* pseudo-classes and pseudo-elements returns the type name alone: every
\* pseudo is removed and no part of one is left.
C22_PseudosRemovedInFull ==
  (call.fn = "normalizeSelector" /\ ret.step >= 1 /\ OnlyRemovablePseudos(call.arg))
    => ret.text = WithoutPseudos(call.arg)

\* The output document holds the data-pc-freeze style element.
FreezeElementInOutput ==
  \E k \in 1..Len(output[1].html.elems) : output[1].html.elems[k].mark = "data-pc-freeze"

\* A collected text comes from the sheet of the freeze style.
FreezeRuleCollected ==
  \/ \E k \in 1..Len(usedRules) : usedRules[k].src = FreezeSheet
  \/ \E k \in 1..Len(FreezeRules) : Occurrences(FreezeRules[k].text) > 0

\* C23: the document the injected function returns holds no data-pc-freeze
\* style element, and no line of the collected text is a rule of the freeze
\* sheet.
C23_NoFreezeTrace ==
  output # <<>> => ~FreezeElementInOutput /\ ~FreezeRuleCollected

-----------------------------------------------------------------------------
(* The popup *)

\* The warnings of the latest capture: those cloneActiveTab returned, none
\* while it runs and none when it failed.
LatestWarnings == IF pc = "idle" /\ result # <<>> THEN result[1].warnings ELSE <<>>

\* What holds of the popup in every state
OneCaptureAtATime ==
  /\ running <= 1
  /\ isWorking <=> running = 1
  /\ isWorking => screen.disabled
  /\ running = 1 <=> pc # "idle"
  /\ cloneWarnings = LatestWarnings
  /\ screen.warnings \in {<<>>, cloneWarnings}

\* A step that ends a call of runClone leaves isWorking false, whether the
\* capture gave a result or failed.
EndsNotWorking == running' < running => ~isWorking'

\* C24: in the popup at most one call of runClone is pending; isWorking is
\* true exactly while one is, and the three buttons are then disabled on the
\* screen; isWorking is false after every capture, ended well or not, and
\* every capture ends; the warnings kept, and those shown unless none are,
\* are the ones the latest capture returned, none while a capture runs.
C24_OneCaptureAtATime ==
  /\ []OneCaptureAtATime
  /\ [][EndsNotWorking]_vars
  /\ (isWorking ~> ~isWorking)

\* A later capture runs while the handler of an earlier one is not through:
\* the buttons are disabled, the earlier warnings are gone, and the running
\* capture has a warning of its own.
C24_Witness ==
  /\ finishing # {}
  /\ isWorking
  /\ screen = Rendered(TRUE, <<>>)
  /\ warnings # <<>>

====
